---- MODULE Spec2Model ----
(***************************************************************************)
(* A model of the weather raster pipeline of lpaus967/WeatherData:         *)
(*   - the Tile Slicer (scripts/processing/generate_tiles.py), run as one  *)
(*     or two concurrent invocations over a shared file system;            *)
(*   - the Raster Transformer (scripts/processing/process_weather.py):     *)
(*     process_grib_file, reproject_to_web_mercator, create_cog;           *)
(*   - the Band Resolver (find_band_by_search_string).                     *)
(* Each part has its own specification over its own variables; the other   *)
(* variables stay at their initial values.                                 *)
(***************************************************************************)
EXTENDS Integers, Sequences, FiniteSets, TLC

VARIABLES
    \* ---- Tile Slicer ----
    job,        \* per invocation: the input file and the command-line options
    pc,         \* per invocation: position in main / generate_tiles / organize
    todo,       \* per invocation: items left in the current loop
    cur,        \* per invocation: zoom directory being organized (0: none)
    fixedTmp,   \* per invocation: the SRS-corrected temporary copy exists
    ramName,    \* per invocation: the clock reading naming its RAM-disk dir
    err,        \* per invocation: stage that failed ("" when none)
    pub,        \* organized tree: key -> zoom -> directory
    direct,     \* args.output/<stem> directories: file -> zoom -> writer
    tmpdir,     \* mkdtemp scratch directories: invocation -> zoom dirs
    ram,        \* RAM-disk directories: clock reading -> zoom dirs
    \* ---- Raster Transformer ----
    cfg,        \* processing settings: resampling_method, target_resolution_meters
    vi,         \* process_grib_file: index of the variable being processed
    rpc,        \* position inside process_variable / reproject / create_cog
    ret,        \* what process_variable handed back: "path", "None" or "exc"
    results,    \* process_grib_file: variables in the returned mapping
    visited,    \* variables process_variable was called for
    failedVars, \* variables one of whose stages failed
    tmpFiles,   \* temporary files that exist: <<variable, "src" | "dst" | "cog">>
    outFile,    \* per variable: state of the file at output_path
    rp,         \* the current reproject_to_web_mercator call, as observed
    cog,        \* the current create_cog call, as observed
    \* ---- Band Resolver ----
    bands,      \* the bands of the GRIB2 file, in file order
    pattern,    \* the search string
    bi,         \* find_band_by_search_string: index of the band examined
    bpc,        \* "loop" while searching, "done" once it has returned
    found,      \* the returned band number (0: None)
    \* ---- Variable Catalog ----
    config,     \* the loaded catalog document (VariableConfig.config)
    cop,        \* the operation called on it
    carg,       \* the operation's arguments
    cpc,        \* position in the operation; "returned" or "raised" at its end
    vq,         \* validate: the variables still to be visited, in order
    issues,     \* validate: the issues list
    cres,       \* the set of variable names of the mapping a query returns
    \* ---- Unit Converter ----
    karg,       \* the arguments of the call
    kpc,        \* "start", "done"
    ambient,    \* state of the process outside the call and the catalog
    cout,       \* what apply_conversion returned or raised
    grid,       \* the data array: unit tag, no-data sentinel, samples
    applied,    \* how many times apply_unit_conversion was applied to it
    uraised,    \* whether an application raised
    \* ---- Tile Slicer, one input file by name ----
    fname,      \* the stem of the input file's name
    srs,        \* the spatial reference of the input raster
    fpc,        \* position in main's loop body for this file
    meta,       \* what parse_cog_filename returned
    fixed,      \* fix_srs_if_needed: path returned, temporary copy, input
    tree,       \* the directory organize_tile_structure published
    runs,       \* get_available_runs: (timestamp, forecast hour) pairs
    \* ---- Color Mapper, one raster from its source file on ----
    src,        \* the source file (name, model, hour) and the variable extracted
    cogname,    \* the stem of the raster process_variable wrote
    inferred,   \* what infer_variable_name returned (<<>>: None or '')
    ramp,       \* the color ramp of the variable: its 'colors' list
    cfile,      \* the rows written to color_ramp.txt
    mpc,        \* position in the Color Mapper's handling of the raster
    colored,    \* the stem of the colored raster (<<>>: none written)
    parsed      \* what parse_cog_filename makes of the colored raster

varsTile == <<job, pc, todo, cur, fixedTmp, ramName, err, pub, direct, tmpdir, ram>>

varsRaster == <<cfg, vi, rpc, ret, results, visited, failedVars, tmpFiles,
                outFile, rp, cog>>

varsBand == <<bands, pattern, bi, bpc, found>>

varsCat == <<config, cop, carg, cpc, vq, issues, cres>>

varsConv == <<karg, kpc, ambient, cout, grid, applied, uraised>>

varsFile == <<fname, srs, fpc, meta, fixed, tree, runs>>

varsColor == <<src, cogname, inferred, ramp, cfile, mpc, colored, parsed>>

vars == <<varsTile, varsRaster, varsBand, varsCat, varsConv, varsFile, varsColor>>

\* Each part of the pipeline leaves the variables of the others alone.
TileOnly   == UNCHANGED <<varsRaster, varsBand, varsCat, varsConv, varsFile,
                          varsColor>>
RasterOnly == UNCHANGED <<varsTile, varsBand, varsCat, varsConv, varsFile,
                          varsColor>>
BandOnly   == UNCHANGED <<varsTile, varsRaster, varsCat, varsConv, varsFile,
                          varsColor>>
CatOnly    == UNCHANGED <<varsTile, varsRaster, varsBand, varsConv, varsFile,
                          varsColor>>
ConvOnly   == UNCHANGED <<varsTile, varsRaster, varsBand, varsFile, varsColor,
                          cop, carg, cpc, vq, issues, cres>>
FileOnly   == UNCHANGED <<varsTile, varsRaster, varsBand, varsCat, varsConv,
                          varsColor>>
ColorOnly  == UNCHANGED <<varsTile, varsRaster, varsBand, varsCat, varsConv,
                          varsFile>>

-----------------------------------------------------------------------------
(* Tile Slicer: scripts/processing/generate_tiles.py                       *)

MaxZoom == 2

Workers == {"w1", "w2"}
Files   == {"fA", "fB"}
Times   == {"t1", "t2"}
Zooms   == 1..MaxZoom

NoDir   == "none"
Old     == "old"

\* A directory of zoom directories: absent, or present with a set of zooms.
Gone     == [ex |-> FALSE, zs |-> {}]
Dir(zs)  == [ex |-> TRUE, zs |-> zs]

\* A zoom directory of the organized tree: who produced it, and whether a
\* second zoom directory was moved inside it.
Absent  == [top |-> NoDir, inner |-> NoDir]
ZDir(o, i) == [top |-> o, inner |-> i]

\* A path that ignores the parsed file name.
organized_path_shared(f) == "fA"

\* The canonical path {variable}/{date}T{cycle}/{forecast}: a function of the
\* parsed file name only.
organized_path(f) == f

\* Where generate_tiles is told to write (temp_output in main).
UsesTmp(w) == job[w].organize

\* Where gdal2tiles writes (actual_output in generate_tiles).
actual_output(w) ==
    IF job[w].ramdisk THEN <<"ram", ramName[w]>>
    ELSE IF UsesTmp(w) THEN <<"tmp", w>>
    ELSE <<"out", job[w].file>>

\* Zoom directories present in output_dir (temp_output), as a set.
NoZooms == [z \in Zooms |-> NoDir]

\* An args.output/<stem> directory: absent, or present with, per zoom, the
\* invocation that wrote it.
GoneDirect == [ex |-> FALSE, by |-> NoZooms]

InitTile ==
    /\ job \in [Workers -> [file: Files, organize: BOOLEAN, ramdisk: BOOLEAN,
                            hi: Zooms]]
    /\ job["w1"].file = "fA"     \* the files are interchangeable
    /\ pc = [w \in Workers |-> "start"]
    /\ todo = [w \in Workers |-> {}]
    /\ cur = [w \in Workers |-> 0]
    /\ fixedTmp = [w \in Workers |-> FALSE]
    /\ ramName = [w \in Workers |-> NoDir]
    /\ err = [w \in Workers |-> ""]
    /\ \E oldHi \in {0, MaxZoom} :    \* nothing published yet, or an earlier run
         pub = [f \in Files |-> [z \in Zooms |->
                    IF z <= oldHi THEN ZDir(Old, NoDir) ELSE Absent]]
    /\ direct = [f \in Files |-> GoneDirect]
    /\ tmpdir = [w \in Workers |-> Gone]
    /\ ram = [t \in Times |-> Gone]

TileIdle ==
    /\ job = [w \in Workers |-> [file |-> "fA", organize |-> FALSE,
                                 ramdisk |-> FALSE, hi |-> 1]]
    /\ pc = [w \in Workers |-> "idle"]
    /\ todo = [w \in Workers |-> {}]
    /\ cur = [w \in Workers |-> 0]
    /\ fixedTmp = [w \in Workers |-> FALSE]
    /\ ramName = [w \in Workers |-> NoDir]
    /\ err = [w \in Workers |-> ""]
    /\ pub = [f \in Files |-> [z \in Zooms |-> Absent]]
    /\ direct = [f \in Files |-> GoneDirect]
    /\ tmpdir = [w \in Workers |-> Gone]
    /\ ram = [t \in Times |-> Gone]

\* main, lines 568-577: choose the output directory.
MainChooseOutput(w) ==
    /\ pc[w] = "start"
    /\ tmpdir' = IF job[w].organize THEN [tmpdir EXCEPT ![w] = Dir({})] ELSE tmpdir
    /\ pc' = [pc EXCEPT ![w] = "srs"]
    /\ UNCHANGED <<job, todo, cur, fixedTmp, ramName, err, pub, direct, ram>>
    /\ TileOnly

\* fix_srs_if_needed, lines 51-120, called at main line 581.  gdal runs with
\* UseExceptions, so a failing Open/Translate raises into main's handler.
FixSrs(w) ==
    /\ pc[w] = "srs"
    /\ \/ /\ pc' = [pc EXCEPT ![w] = "gen"]          \* SRS is correct
          /\ UNCHANGED <<fixedTmp, err>>
       \/ /\ fixedTmp' = [fixedTmp EXCEPT ![w] = TRUE] \* corrected copy
          /\ pc' = [pc EXCEPT ![w] = "gen"]
          /\ UNCHANGED err
       \/ /\ pc' = [pc EXCEPT ![w] = "failed"]       \* gdal raised
          /\ err' = [err EXCEPT ![w] = "srs"]
          /\ UNCHANGED fixedTmp
    /\ UNCHANGED <<job, todo, cur, ramName, pub, direct, tmpdir, ram>>
    /\ TileOnly

\* mkdir(parents=True, exist_ok=True) on a directory of zoom dirs.
Mkdir(d) == [ex |-> TRUE, zs |-> d.zs]
MkdirDirect(d) == [ex |-> TRUE, by |-> d.by]

\* A zoom directory z is written into directory d.
AddZoom(d, z) == [ex |-> TRUE, zs |-> d.zs \cup {z}]
AddZoomDirect(d, z, w) == [ex |-> TRUE, by |-> [d.by EXCEPT ![z] = w]]

\* generate_tiles, lines 224-238: create output_dir, and the RAM-disk
\* directory named from the clock reading t.
GenMkdir(w) ==
    /\ pc[w] = "gen"
    /\ direct' = IF UsesTmp(w) THEN direct
                 ELSE [direct EXCEPT ![job[w].file] = MkdirDirect(@)]
    /\ IF job[w].ramdisk
       THEN \E t \in Times :
               /\ ramName' = [ramName EXCEPT ![w] = t]
               /\ ram' = [ram EXCEPT ![t] = Mkdir(@)]
       ELSE UNCHANGED <<ramName, ram>>
    /\ todo' = [todo EXCEPT ![w] = 1..job[w].hi]
    /\ pc' = [pc EXCEPT ![w] = "tiling"]
    /\ UNCHANGED <<job, cur, fixedTmp, err, pub, tmpdir>>
    /\ TileOnly

\* The external gdal2tiles run (line 281) writes one more zoom directory
\* into actual_output.
Gdal2tilesWrite(w) ==
    /\ pc[w] = "tiling"
    /\ \E z \in todo[w] :
         /\ \A y \in todo[w] : y <= z      \* base zoom first, then overviews
         /\ todo' = [todo EXCEPT ![w] = @ \ {z}]
         /\ IF job[w].ramdisk
            THEN /\ ram' = [ram EXCEPT ![ramName[w]] = AddZoom(@, z)]
                 /\ UNCHANGED <<tmpdir, direct>>
            ELSE IF UsesTmp(w)
            THEN /\ tmpdir' = [tmpdir EXCEPT ![w] = AddZoom(@, z)]
                 /\ UNCHANGED <<ram, direct>>
            ELSE /\ direct' = [direct EXCEPT ![job[w].file] =
                                  AddZoomDirect(@, z, w)]
                 /\ UNCHANGED <<ram, tmpdir>>
    /\ UNCHANGED <<job, pc, cur, fixedTmp, ramName, err, pub>>
    /\ TileOnly

\* generate_tiles returned {'success': False}: main, lines 596-603, removes
\* the SRS-corrected copy and continues with the next file.
GenFailed(w, stage) ==
    /\ pc' = [pc EXCEPT ![w] = "failed"]
    /\ err' = [err EXCEPT ![w] = stage]
    /\ fixedTmp' = [fixedTmp EXCEPT ![w] = FALSE]

\* gdal2tiles exits with a non-zero status at any point of its run
\* (check=True raises CalledProcessError, lines 329-331).
Gdal2tilesFail(w) ==
    /\ pc[w] = "tiling"
    /\ GenFailed(w, "tiling")
    /\ UNCHANGED <<job, todo, cur, ramName, pub, direct, tmpdir, ram>>
    /\ TileOnly

\* gdal2tiles exits with status 0; with a RAM disk the copy loop starts
\* (lines 293-300: iterdir raises when the directory is gone).
Gdal2tilesDone(w) ==
    /\ pc[w] = "tiling"
    /\ todo[w] = {}
    /\ IF ~job[w].ramdisk
       THEN /\ pc' = [pc EXCEPT ![w] = "gendone"]
            /\ UNCHANGED <<todo, err, fixedTmp>>
       ELSE IF ~ram[ramName[w]].ex
       THEN /\ GenFailed(w, "copy")
            /\ UNCHANGED todo
       ELSE /\ pc' = [pc EXCEPT ![w] = "copy"]
            /\ todo' = [todo EXCEPT ![w] = ram[ramName[w]].zs]
            /\ UNCHANGED <<err, fixedTmp>>
    /\ UNCHANGED <<job, cur, ramName, pub, direct, tmpdir, ram>>
    /\ TileOnly

\* Lines 300-305: one item of the RAM-disk directory is copied to output_dir
\* (an item that is no longer a directory is skipped by is_dir()).
CopyItem(w) ==
    /\ pc[w] = "copy"
    /\ \E z \in todo[w] :
         /\ todo' = [todo EXCEPT ![w] = @ \ {z}]
         /\ IF z \notin ram[ramName[w]].zs
            THEN UNCHANGED <<tmpdir, direct>>
            ELSE IF UsesTmp(w)
            THEN /\ tmpdir' = [tmpdir EXCEPT ![w] = AddZoom(@, z)]
                 /\ UNCHANGED direct
            ELSE /\ direct' = [direct EXCEPT ![job[w].file] =
                                  AddZoomDirect(@, z, w)]
                 /\ UNCHANGED tmpdir
    /\ UNCHANGED <<job, pc, cur, fixedTmp, ramName, err, pub, ram>>
    /\ TileOnly

\* Line 310: shutil.rmtree(temp_ramdisk); it raises when the directory is
\* already gone, which the handler at line 335 turns into a failure.
CopyCleanup(w) ==
    /\ pc[w] = "copy"
    /\ todo[w] = {}
    /\ IF ~ram[ramName[w]].ex
       THEN /\ GenFailed(w, "copy")
            /\ UNCHANGED ram
       ELSE /\ ram' = [ram EXCEPT ![ramName[w]] = Gone]
            /\ pc' = [pc EXCEPT ![w] = "gendone"]
            /\ UNCHANGED <<err, fixedTmp>>
    /\ UNCHANGED <<job, todo, cur, ramName, pub, direct, tmpdir>>
    /\ TileOnly

\* main, lines 596-615, after a successful generate_tiles: remove the
\* SRS-corrected copy; with --organize enter organize_tile_structure
\* (lines 408-416: the scratch directory is listed once).
MainAfterGen(w) ==
    /\ pc[w] = "gendone"
    /\ fixedTmp' = [fixedTmp EXCEPT ![w] = FALSE]
    /\ IF job[w].organize
       THEN /\ pc' = [pc EXCEPT ![w] = "org"]
            /\ todo' = [todo EXCEPT ![w] = tmpdir[w].zs]
       ELSE /\ pc' = [pc EXCEPT ![w] = "published"]
            /\ UNCHANGED todo
    /\ UNCHANGED <<job, cur, ramName, err, pub, direct, tmpdir, ram>>
    /\ TileOnly

Key(w) == organized_path(job[w].file)

\* organize_tile_structure, lines 416-421: next zoom directory, dest.exists().
OrgCheck(w) ==
    /\ pc[w] = "org"
    /\ \E z \in todo[w] :
         /\ cur' = [cur EXCEPT ![w] = z]
         /\ pc' = [pc EXCEPT ![w] =
                     IF pub[Key(w)][z].top # NoDir THEN "org_rm" ELSE "org_mv"]
    /\ UNCHANGED <<job, todo, fixedTmp, ramName, err, pub, direct, tmpdir, ram>>
    /\ TileOnly

\* Line 422: shutil.rmtree(dest_zoom); it raises when dest is already gone,
\* and the exception ends this file in main's handler (line 642).
OrgRemove(w) ==
    /\ pc[w] = "org_rm"
    /\ IF pub[Key(w)][cur[w]].top = NoDir
       THEN /\ pc' = [pc EXCEPT ![w] = "failed"]
            /\ err' = [err EXCEPT ![w] = "organize"]
            /\ UNCHANGED pub
       ELSE /\ pub' = [pub EXCEPT ![Key(w)][cur[w]] = Absent]
            /\ pc' = [pc EXCEPT ![w] = "org_mv"]
            /\ UNCHANGED err
    /\ UNCHANGED <<job, todo, cur, fixedTmp, ramName, direct, tmpdir, ram>>
    /\ TileOnly

\* shutil.move(src, dst): dst absent: src becomes dst; dst an existing
\* directory: src is moved inside it; dst/<name> existing too: shutil.Error.
ShutilMove(d, w) ==
    IF d.top = NoDir THEN ZDir(w, NoDir)
    ELSE IF d.inner = NoDir THEN ZDir(d.top, w)
    ELSE d

\* Line 425: shutil.move(zoom_dir, dest_zoom).
OrgMove(w) ==
    /\ pc[w] = "org_mv"
    /\ LET d == pub[Key(w)][cur[w]] IN
         IF d.top # NoDir /\ d.inner # NoDir
         THEN /\ pc' = [pc EXCEPT ![w] = "failed"]
              /\ err' = [err EXCEPT ![w] = "organize"]
              /\ UNCHANGED <<pub, tmpdir, todo, cur>>
         ELSE /\ pub' = [pub EXCEPT ![Key(w)][cur[w]] = ShutilMove(d, w)]
              /\ tmpdir' = [tmpdir EXCEPT ![w] = Dir(@.zs \ {cur[w]})]
              /\ todo' = [todo EXCEPT ![w] = @ \ {cur[w]}]
              /\ cur' = [cur EXCEPT ![w] = 0]
              /\ pc' = [pc EXCEPT ![w] = "org"]
              /\ UNCHANGED err
    /\ UNCHANGED <<job, fixedTmp, ramName, direct, ram>>
    /\ TileOnly

\* Lines 428-432: remove the scratch directory and return.
OrgCleanup(w) ==
    /\ pc[w] = "org"
    /\ todo[w] = {}
    /\ tmpdir' = [tmpdir EXCEPT ![w] = Gone]
    /\ pc' = [pc EXCEPT ![w] = "published"]
    /\ UNCHANGED <<job, todo, cur, fixedTmp, ramName, err, pub, direct, ram>>
    /\ TileOnly

NextTile ==
    \E w \in Workers :
        \/ MainChooseOutput(w)
        \/ FixSrs(w)
        \/ GenMkdir(w)
        \/ Gdal2tilesWrite(w)
        \/ Gdal2tilesFail(w)
        \/ Gdal2tilesDone(w)
        \/ CopyItem(w)
        \/ CopyCleanup(w)
        \/ MainAfterGen(w)
        \/ OrgCheck(w)
        \/ OrgRemove(w)
        \/ OrgMove(w)
        \/ OrgCleanup(w)

-----------------------------------------------------------------------------
(* Raster Transformer: scripts/processing/process_weather.py               *)

NVars == 2

Variables == 1..NVars

\* Optional values: None, or a one-element tuple.
None    == <<>>
Some(x) == <<x>>

\* Names a caller may give as resampling_method.
Methods == {"bilinear", "near", "nearest"}

\* Line 346: getattr(Resampling, method.lower(), Resampling.bilinear).  The
\* rasterio enumeration has the members nearest, bilinear, cubic, ...; it
\* has no member "near", so that name falls to the default.
RasterioAlg(m) ==
    IF m = "nearest" THEN "nearest"
    ELSE IF m = "bilinear" THEN "bilinear"
    ELSE "bilinear"

\* Lines 378-387: "resampleAlg": resampling_method, handed to gdalwarp as
\* given.  gdalwarp knows near, bilinear, cubic, ...; "nearest" is not one
\* of its names and makes the warp fail.
GdalAlg(m) ==
    IF m = "near" THEN "nearest"
    ELSE IF m = "bilinear" THEN "bilinear"
    ELSE "invalid"

\* process_variable, lines 547-549: a non-positive target resolution is
\* treated as absent.
TargetRes(r) == IF r # None /\ r[1] <= 0 THEN None ELSE r

NoCall == [primary |-> "", fallbacks |-> 0, warped |-> FALSE, fbFailed |-> FALSE,
           pAlg |-> "", pRes |-> None, fAlg |-> "", fRes |-> None, ended |-> ""]

NoCog == [written |-> FALSE, overviews |-> FALSE, translated |-> FALSE,
          ended |-> ""]

RasterIdle ==
    /\ cfg = [method |-> "bilinear", res |-> None]
    /\ vi = 1
    /\ rpc = "idle"
    /\ ret = ""
    /\ results = {}
    /\ visited = {}
    /\ failedVars = {}
    /\ tmpFiles = {}
    /\ outFile = [v \in Variables |-> "none"]
    /\ rp = NoCall
    /\ cog = NoCog

\* The state in which process_grib_file enters its loop (line 625).
InitRaster ==
    /\ cfg \in [method: Methods, res: {None, Some(0), Some(3000)}]
    /\ vi = 1
    /\ rpc = "extract"
    /\ ret = ""
    /\ results = {}
    /\ visited = {}
    /\ failedVars = {}
    /\ tmpFiles = {}
    /\ outFile = [v \in Variables |-> "none"]
    /\ rp = NoCall
    /\ cog = NoCog

\* process_variable ends for the current variable: it returns the output
\* path or None, or an exception leaves it.
Return(r) ==
    /\ rpc' = "returned"
    /\ ret' = r
    /\ failedVars' = IF r = "path" THEN failedVars ELSE failedVars \cup {vi}

\* Lines 525-532: extract_variable_from_grib; no band found gives None,
\* a file that cannot be read raises.
ExtractVariable ==
    /\ rpc = "extract"
    /\ vi \in Variables
    /\ visited' = visited \cup {vi}
    /\ \/ /\ rpc' = "convert"
          /\ UNCHANGED <<ret, failedVars>>
       \/ Return("None")
       \/ Return("exc")
    /\ UNCHANGED <<cfg, vi, results, tmpFiles, outFile, rp, cog>>
    /\ RasterOnly

\* Lines 535-541: apply_unit_conversion, when the variable has a conversion;
\* a bad formula raises.
ApplyConversion ==
    /\ rpc = "convert"
    /\ \/ /\ rpc' = "reproject"
          /\ UNCHANGED <<ret, failedVars>>
       \/ Return("exc")
    /\ UNCHANGED <<cfg, vi, results, visited, tmpFiles, outFile, rp, cog>>
    /\ RasterOnly

Src == <<vi, "src">>
Dst == <<vi, "dst">>

\* Lines 346-371: the primary in-memory reprojection; when it raises, the
\* handler creates the two temporary files (delete=False).
ReprojectPrimary ==
    /\ rpc = "reproject"
    /\ LET call == [NoCall EXCEPT !.pAlg = RasterioAlg(cfg.method),
                                  !.pRes = TargetRes(cfg.res)] IN
       \/ /\ rp' = [call EXCEPT !.primary = "ok", !.ended = "returned"]
          /\ rpc' = "cog"
          /\ UNCHANGED tmpFiles
       \/ /\ rp' = [call EXCEPT !.primary = "failed", !.fallbacks = 1]
          /\ rpc' = "fb_write"
          /\ tmpFiles' = tmpFiles \cup {Src, Dst}
    /\ UNCHANGED <<cfg, vi, ret, results, visited, failedVars, outFile, cog>>
    /\ RasterOnly

\* Line 375: data_array.rio.to_raster(src_path).
FallbackWriteSource ==
    /\ rpc = "fb_write"
    /\ \/ rpc' = "fb_warp"
       \/ rpc' = "fb_except"
    /\ UNCHANGED <<cfg, vi, ret, results, visited, failedVars, tmpFiles, outFile,
                   rp, cog>>
    /\ RasterOnly

\* Lines 378-389: gdal.Warp with the caller's method name and resolution.
FallbackWarp ==
    /\ rpc = "fb_warp"
    /\ rp' = [rp EXCEPT !.warped = TRUE, !.fAlg = GdalAlg(cfg.method),
                        !.fRes = TargetRes(cfg.res)]
    /\ \/ /\ GdalAlg(cfg.method) # "invalid"
          /\ rpc' = "fb_read"
       \/ rpc' = "fb_except"
    /\ UNCHANGED <<cfg, vi, ret, results, visited, failedVars, tmpFiles, outFile,
                   cog>>
    /\ RasterOnly

\* Line 392: rxr.open_rasterio(dst_path).
FallbackReadBack ==
    /\ rpc = "fb_read"
    /\ \/ rpc' = "fb_unlink_src"
       \/ rpc' = "fb_except"
    /\ UNCHANGED <<cfg, vi, ret, results, visited, failedVars, tmpFiles, outFile,
                   rp, cog>>
    /\ RasterOnly

\* Line 395: Path(src_path).unlink().
FallbackUnlinkSrc ==
    /\ rpc = "fb_unlink_src"
    /\ \/ /\ tmpFiles' = tmpFiles \ {Src}
          /\ rpc' = "fb_unlink_dst"
       \/ /\ rpc' = "fb_except"
          /\ UNCHANGED tmpFiles
    /\ UNCHANGED <<cfg, vi, ret, results, visited, failedVars, outFile,
                   rp, cog>>
    /\ RasterOnly

\* Line 396: Path(dst_path).unlink(); then the call returns (line 409).
FallbackUnlinkDst ==
    /\ rpc = "fb_unlink_dst"
    /\ \/ /\ tmpFiles' = tmpFiles \ {Dst}
          /\ rpc' = "cog"
          /\ rp' = [rp EXCEPT !.ended = "returned"]
       \/ /\ rpc' = "fb_except"
          /\ UNCHANGED <<tmpFiles, rp>>
    /\ UNCHANGED <<cfg, vi, ret, results, visited, failedVars, outFile, cog>>
    /\ RasterOnly

\* Lines 398-405: the handler removes each temporary file that exists and
\* re-raises; an unlink that raises inside the handler ends it at once.
FallbackExcept ==
    /\ rpc = "fb_except"
    /\ \/ /\ Src \in tmpFiles             \* line 402 raises
          /\ UNCHANGED tmpFiles
       \/ /\ Dst \in tmpFiles             \* line 404 raises
          /\ tmpFiles' = tmpFiles \ {Src}
       \/ tmpFiles' = tmpFiles \ {Src, Dst}
    /\ rp' = [rp EXCEPT !.fbFailed = TRUE, !.ended = "raised"]
    /\ Return("exc")
    /\ UNCHANGED <<cfg, vi, results, visited, outFile, cog>>
    /\ RasterOnly

CogTmp == <<vi, "cog">>

\* create_cog, lines 440-452: to_raster writes the side file temp_path.
CogWriteTemp ==
    /\ rpc = "cog"
    /\ \/ /\ tmpFiles' = tmpFiles \cup {CogTmp}
          /\ cog' = [NoCog EXCEPT !.written = TRUE]
          /\ rpc' = "cog_ovr"
       \/ /\ tmpFiles' \in {tmpFiles, tmpFiles \cup {CogTmp}}
          /\ cog' = NoCog
          /\ rpc' = "cog_except"
    /\ UNCHANGED <<cfg, vi, ret, results, visited, failedVars, outFile, rp>>
    /\ RasterOnly

\* Lines 458-466: gdal.Open(temp_path, GA_Update) and BuildOverviews.
CogBuildOverviews ==
    /\ rpc = "cog_ovr"
    /\ \/ /\ cog' = [cog EXCEPT !.overviews = TRUE]
          /\ rpc' = "cog_translate"
       \/ /\ rpc' = "cog_except"
          /\ UNCHANGED cog
    /\ UNCHANGED <<cfg, vi, ret, results, visited, failedVars, tmpFiles, outFile, rp>>
    /\ RasterOnly

\* Lines 469-483: gdal.Translate(output_path, temp_path) writes the COG at
\* the final path; when it raises, what it had written may remain.
CogTranslate ==
    /\ rpc = "cog_translate"
    /\ \/ /\ outFile' = [outFile EXCEPT ![vi] = "complete"]
          /\ cog' = [cog EXCEPT !.translated = TRUE]
          /\ rpc' = "cog_unlink"
       \/ /\ outFile' \in {outFile, [outFile EXCEPT ![vi] = "partial"]}
          /\ rpc' = "cog_except"
          /\ UNCHANGED cog
    /\ UNCHANGED <<cfg, vi, ret, results, visited, failedVars, tmpFiles, rp>>
    /\ RasterOnly

\* Lines 486-491: temp_path.unlink(), then return True; process_variable
\* returns output_path (lines 573-574).
CogUnlinkTemp ==
    /\ rpc = "cog_unlink"
    /\ \/ /\ tmpFiles' = tmpFiles \ {CogTmp}
          /\ cog' = [cog EXCEPT !.ended = "true"]
          /\ Return("path")
       \/ /\ rpc' = "cog_except"
          /\ UNCHANGED <<tmpFiles, cog, ret, failedVars>>
    /\ UNCHANGED <<cfg, vi, results, visited, outFile, rp>>
    /\ RasterOnly

\* Lines 493-497: the handler removes temp_path when it exists and returns
\* False (process_variable then returns None); an unlink that raises inside
\* the handler leaves create_cog as an exception.
CogExcept ==
    /\ rpc = "cog_except"
    /\ \/ /\ tmpFiles' = tmpFiles \ {CogTmp}
          /\ cog' = [cog EXCEPT !.ended = "false"]
          /\ Return("None")
       \/ /\ CogTmp \in tmpFiles
          /\ cog' = [cog EXCEPT !.ended = "raised"]
          /\ Return("exc")
          /\ UNCHANGED tmpFiles
    /\ UNCHANGED <<cfg, vi, results, visited, outFile, rp>>
    /\ RasterOnly

\* process_grib_file, lines 636-640: only a returned path enters results.
ResultsAfter(res, v, r) == IF r = "path" THEN res \cup {v} ELSE res

\* Without the handler of line 642 an exception would end the loop.
NextVarUncaught(v, r) == IF r = "exc" THEN NVars + 1 ELSE v + 1

\* process_grib_file, lines 625-643: the loop goes on to the next variable
\* whatever process_variable did (the exception is caught and logged).
NextVar(v, r) == v + 1

\* process_grib_file, lines 625-647: the outcome of one variable is taken
\* and the loop continues, or the mapping is returned.
GribLoopNext ==
    /\ rpc = "returned"
    /\ results' = ResultsAfter(results, vi, ret)
    /\ vi' = NextVar(vi, ret)
    /\ rpc' = IF vi' \in Variables THEN "extract" ELSE "done"
    /\ ret' = ""
    /\ rp' = NoCall
    /\ cog' = NoCog
    /\ UNCHANGED <<cfg, visited, failedVars, tmpFiles, outFile>>
    /\ RasterOnly

NextRaster ==
    \/ CogWriteTemp
    \/ CogBuildOverviews
    \/ CogTranslate
    \/ CogUnlinkTemp
    \/ CogExcept
    \/ GribLoopNext
    \/ ExtractVariable
    \/ ApplyConversion
    \/ ReprojectPrimary
    \/ FallbackWriteSource
    \/ FallbackWarp
    \/ FallbackReadBack
    \/ FallbackUnlinkSrc
    \/ FallbackUnlinkDst
    \/ FallbackExcept

-----------------------------------------------------------------------------
(* Band Resolver: find_band_by_search_string, process_weather.py 89-173.   *)
(* Strings are sequences of one-character strings, so that case folding,   *)
(* stripping, splitting and substring search are computed, not assumed.    *)

MaxBands == 3

Digits == {"0","1","2","3","4","5","6","7","8","9"}

\* str.lower(), str.upper()
Lower(s) ==
    LET U == <<"A","B","C","D","E","F","G","H","I","J","K","L","M",
               "N","O","P","Q","R","S","T","U","V","W","X","Y","Z">>
        L == <<"a","b","c","d","e","f","g","h","i","j","k","l","m",
               "n","o","p","q","r","s","t","u","v","w","x","y","z">>
    IN  [i \in 1..Len(s) |->
            IF \E n \in 1..26 : U[n] = s[i]
            THEN L[CHOOSE n \in 1..26 : U[n] = s[i]] ELSE s[i]]
Upper(s) ==
    LET U == <<"A","B","C","D","E","F","G","H","I","J","K","L","M",
               "N","O","P","Q","R","S","T","U","V","W","X","Y","Z">>
        L == <<"a","b","c","d","e","f","g","h","i","j","k","l","m",
               "n","o","p","q","r","s","t","u","v","w","x","y","z">>
    IN  [i \in 1..Len(s) |->
            IF \E n \in 1..26 : L[n] = s[i]
            THEN U[CHOOSE n \in 1..26 : L[n] = s[i]] ELSE s[i]]

\* str.strip()
Strip(s) ==
    LET keep == {i \in 1..Len(s) : s[i] # " "} IN
    IF keep = {} THEN <<>>
    ELSE SubSeq(s, CHOOSE a \in keep : \A b \in keep : a <= b,
                   CHOOSE a \in keep : \A b \in keep : a >= b)

\* sub in s
Contains(sub, s) ==
    \E i \in 1..(Len(s) - Len(sub) + 1) : SubSeq(s, i, i + Len(sub) - 1) = sub

\* Lines 102-108: split(':', 1) and strip; without a colon the level is
\* None, which like the empty string counts as "no level" at line 122.
ElementOf(s) ==
    LET colons == {i \in 1..Len(s) : s[i] = ":"} IN
    IF colons = {} THEN Strip(s)
    ELSE Strip(SubSeq(s, 1, (CHOOSE i \in colons : \A j \in colons : i <= j) - 1))
LevelOf(s) ==
    LET colons == {i \in 1..Len(s) : s[i] = ":"} IN
    IF colons = {} THEN <<>>
    ELSE Strip(SubSeq(s, (CHOOSE i \in colons : \A j \in colons : i <= j) + 1, Len(s)))

\* Line 157: re.search(r'(\d+)\s*m', level_lower).group(1): the leftmost
\* run of digits that is followed by optional blanks and an "m"; <<>> when
\* there is none.
LevelNum(s) ==
    LET RunEnd(i) ==
            CHOOSE j \in i..Len(s) :
                /\ \A k \in i..j : s[k] \in Digits
                /\ (j = Len(s) \/ s[j + 1] \notin Digits)
        UnitAfter(j) ==
            \E k \in (j + 1)..Len(s) :
                /\ s[k] = "m"
                /\ \A b \in (j + 1)..(k - 1) : s[b] = " "
        starts == {i \in 1..Len(s) : s[i] \in Digits /\ UnitAfter(RunEnd(i))}
    IN  IF starts = {} THEN <<>>
        ELSE LET i == CHOOSE x \in starts : \A y \in starts : x <= y
             IN SubSeq(s, i, RunEnd(i))

\* String literals of lines 140-161.
Lit ==
    [eatm |-> <<"e", "a", "t", "m">>,
     entire_atmosphere |-> <<"e", "n", "t", "i", "r", "e", " ", "a", "t",
         "m", "o", "s", "p", "h", "e", "r", "e">>,
     surface |-> <<"s", "u", "r", "f", "a", "c", "e">>,
     sfc |-> <<"s", "f", "c">>,
     sp_m |-> <<" ", "m">>,
     meter |-> <<"m", "e", "t", "e", "r">>,
     htgl |-> <<"-", "h", "t", "g", "l">>,
     br_m |-> <<"[", "m", "]">>]

\* GRIB_ELEMENT values as the GDAL GRIB driver gives them.
Elem ==
    [TMP |-> <<"T", "M", "P">>,
     TMPA |-> <<"T", "M", "P", "A">>]

\* Levels: GRIB_SHORT_NAME and band description as the GDAL GRIB driver
\* gives them.
Lvl ==
    [htgl2 |->
        [short |-> <<"2", "-", "H", "T", "G", "L">>,
         desc |-> <<"2", "[", "m", "]", " ", "H", "T", "G", "L", "=", "\"",
             "S", "p", "e", "c", "i", "f", "i", "e", "d", " ", "h", "e", "i",
             "g", "h", "t", " ", "l", "e", "v", "e", "l", " ", "a", "b", "o",
             "v", "e", " ", "g", "r", "o", "u", "n", "d", "\"">>],
     htgl12 |->
        [short |-> <<"1", "2", "-", "H", "T", "G", "L">>,
         desc |-> <<"1", "2", "[", "m", "]", " ", "H", "T", "G", "L", "=",
             "\"", "S", "p", "e", "c", "i", "f", "i", "e", "d", " ", "h",
             "e", "i", "g", "h", "t", " ", "l", "e", "v", "e", "l", " ", "a",
             "b", "o", "v", "e", " ", "g", "r", "o", "u", "n", "d", "\"">>],
     sfc |->
        [short |-> <<"0", "-", "S", "F", "C">>,
         desc |-> <<"0", "[", "-", "]", " ", "S", "F", "C", "=", "\"", "G",
             "r", "o", "u", "n", "d", " ", "o", "r", " ", "w", "a", "t", "e",
             "r", " ", "s", "u", "r", "f", "a", "c", "e", "\"">>],
     eatm |->
        [short |-> <<"0", "-", "E", "A", "T", "M">>,
         desc |-> <<"0", "[", "-", "]", " ", "E", "A", "T", "M", "=", "\"",
             "E", "n", "t", "i", "r", "e", " ", "a", "t", "m", "o", "s", "p",
             "h", "e", "r", "e", " ", "(", "c", "o", "n", "s", "i", "d", "e",
             "r", "e", "d", " ", "a", "s", " ", "a", " ", "s", "i", "n", "g",
             "l", "e", " ", "l", "a", "y", "e", "r", ")", "\"">>]]

\* Search strings of the catalog's grib_search fields.
Pat ==
    [TMP_2m |-> <<"T", "M", "P", ":", "2", " ", "m">>,
     tmp_2m |-> <<"t", "m", "p", ":", "2", " ", "m">>,
     TMP |-> <<"T", "M", "P">>,
     TMP_colon |-> <<"T", "M", "P", ":">>,
     TMP_surface |-> <<"T", "M", "P", ":", "s", "u", "r", "f", "a", "c", "e">>,
     TMP_eatm |-> <<"T", "M", "P", ":", "e", "n", "t", "i", "r", "e", " ",
         "a", "t", "m", "o", "s", "p", "h", "e", "r", "e">>,
     TMP_0m |-> <<"T", "M", "P", ":", "0", " ", "m">>,
     TMPA_2m_padded |-> <<" ", "T", "M", "P", "A", " ", ":", " ", "2", " ",
         "m", " ">>,
     TMP_HTGL |-> <<"T", "M", "P", ":", "H", "T", "G", "L">>,
     TMP_2m_unspaced |-> <<"T", "M", "P", ":", "2", "m">>,
     TMP_2mb |-> <<"T", "M", "P", ":", "2", " ", "m", "b">>]

\* One band as list_grib_bands (lines 73-83) reports it.
Band == [elem : {Elem.TMP, Elem.TMPA},
         lvl : {Lvl.htgl2, Lvl.htgl12, Lvl.sfc, Lvl.eatm}]

Patterns == {Pat[k] : k \in DOMAIN Pat}

\* Substring form of the element test: what a containment check would do.
ElementMatchesSubstring(element, grib_element) ==
    Contains(Upper(element), Upper(grib_element))

\* Line 117: element.upper() != grib_element.upper() skips the band.
ElementMatches(element, grib_element) == Upper(element) = Upper(grib_element)

\* Bare-number form of the height test: the digits anywhere in the level.
NumericHeightMatchBare(num, short_name_lower, desc_lower) ==
    Contains(num, short_name_lower) \/ Contains(num, desc_lower)

\* Line 161: f"{level_num}-htgl" in short_name_lower
\*           or f"{level_num}[m]" in desc_lower.
NumericHeightMatch(num, short_name_lower, desc_lower) ==
    \/ Contains(num \o Lit.htgl, short_name_lower)
    \/ Contains(num \o Lit.br_m, desc_lower)

\* Lines 133-170: the level test of one band, in the order of the branches.
LevelMatches(level, b) ==
    LET level_lower      == Lower(level)
        desc_lower       == Lower(b.lvl.desc)
        short_name_lower == Lower(b.lvl.short)
    IN  IF Contains(Lit.entire_atmosphere, level_lower) \/ Contains(Lit.eatm, level_lower)
        THEN Contains(Lit.eatm, short_name_lower)
                \/ Contains(Lit.entire_atmosphere, desc_lower)
        ELSE IF Contains(Lit.surface, level_lower) \/ Contains(Lit.sfc, level_lower)
        THEN Contains(Lit.sfc, short_name_lower) \/ Contains(Lit.surface, desc_lower)
        ELSE IF Contains(Lit.sp_m, level_lower) \/ Contains(Lit.meter, level_lower)
        THEN /\ LevelNum(level_lower) # <<>>
             /\ NumericHeightMatch(LevelNum(level_lower), short_name_lower, desc_lower)
        ELSE Contains(level_lower, desc_lower)

BandIdle ==
    /\ bands = <<>>
    /\ pattern = <<>>
    /\ bi = 1
    /\ bpc = "idle"
    /\ found = 0

\* Line 112: the bands are listed; the loop of line 114 starts.
InitBand ==
    /\ bands \in UNION {[1..n -> Band] : n \in 0..MaxBands}
    /\ pattern \in Patterns
    /\ bi = 1
    /\ bpc = "loop"
    /\ found = 0

\* Lines 114-118: the element of band bi differs: continue.
BandSkipElement ==
    /\ bpc = "loop" /\ bi <= Len(bands)
    /\ ~ElementMatches(ElementOf(pattern), bands[bi].elem)
    /\ bi' = bi + 1
    /\ UNCHANGED <<bands, pattern, bpc, found>>
    /\ BandOnly

\* Lines 121-170: the element matches and no level was asked for, or the
\* level matches: return band_num.
BandReturn ==
    /\ bpc = "loop" /\ bi <= Len(bands)
    /\ ElementMatches(ElementOf(pattern), bands[bi].elem)
    /\ LevelOf(pattern) = <<>> \/ LevelMatches(LevelOf(pattern), bands[bi])
    /\ found' = bi
    /\ bpc' = "done"
    /\ UNCHANGED <<bands, pattern, bi>>
    /\ BandOnly

\* Lines 126-170: the element matches but the level does not: next band.
BandSkipLevel ==
    /\ bpc = "loop" /\ bi <= Len(bands)
    /\ ElementMatches(ElementOf(pattern), bands[bi].elem)
    /\ LevelOf(pattern) # <<>> /\ ~LevelMatches(LevelOf(pattern), bands[bi])
    /\ bi' = bi + 1
    /\ UNCHANGED <<bands, pattern, bpc, found>>
    /\ BandOnly

\* Lines 172-173: no band was returned by the loop: return None.
BandNotFound ==
    /\ bpc = "loop" /\ bi > Len(bands)
    /\ found' = 0
    /\ bpc' = "done"
    /\ UNCHANGED <<bands, pattern, bi>>
    /\ BandOnly

NextBand == BandSkipElement \/ BandReturn \/ BandSkipLevel \/ BandNotFound

-----------------------------------------------------------------------------
(* Variable Catalog: config_manager.py.  The document is what               *)
(* yaml.safe_load returned: nothing at all (an empty file), or a mapping    *)
(* whose keys may be absent, present without a value (null), or mappings.   *)

\* Variable names, in the order of the document (dict order).
CatVars == <<"temperature_2m", "wind_u_10m">>
CatNames == {CatVars[i] : i \in 1..Len(CatVars)}

\* Lines 257: the fields validate requires of a variable.
required_var_keys == <<"grib_search", "display_name", "units_source", "units_display">>

\* One value of the 'variables' mapping.  k: "absent" (no such key), "null"
\* (key without a value), "str" (a scalar), "map".  In a map: the required
\* fields present, the color_ramp and conversion references ("" when the
\* field is absent), the enabled flag ("absent", "true", "false") and the
\* priority (0 when absent).
NoEntry(k) == [k |-> k, req |-> {}, ramp |-> "", conv |-> "", enabled |-> "absent",
               priority |-> 0]
EntryShapes ==
    [k : {"map"},
     req : {{"grib_search", "display_name", "units_source", "units_display"},
            {"grib_search", "display_name", "units_source"},
            {"display_name", "units_display"}},
     ramp : {"", "temperature", "wind"},
     conv : {"", "kelvin_to_celsius", "mps_to_mph"},
     enabled : {"true"}, priority : {1}]
EntryFlags ==
    [k : {"map"},
     req : {{"grib_search", "display_name", "units_source", "units_display"}},
     ramp : {"temperature"}, conv : {""},
     enabled : {"absent", "true", "false"}, priority : {0, 1, 2}]
Malformed == {NoEntry("absent"), NoEntry("null"), NoEntry("str")}

\* A table of the document (color_ramps, conversions): absent, null, or a
\* mapping with the given names.
Table(k, names) == [k |-> k, names |-> names]

\* One value of the 'conversions' mapping: null, a scalar, or a mapping
\* with the given 'formula' ("absent" when it has no such key).
Conversion(k, formula) == [k |-> k, formula |-> formula]

\* The conversions of a well-formed catalog.
StdFormulas ==
    [n \in {"kelvin_to_celsius", "kelvin_to_fahrenheit", "mps_to_mph"} |->
        Conversion("map", IF n = "kelvin_to_celsius" THEN "value - 273"
                          ELSE IF n = "kelvin_to_fahrenheit" THEN "value * 2 - 460"
                          ELSE "value * 2")]

\* The documents: entries drawn from E for every variable name; without a
\* 'variables' mapping there are no entries.
Catalogs(E) ==
    {[doc |-> "null", keys |-> {}, variables |-> Table("absent", {}),
      m |-> [v \in CatNames |-> NoEntry("absent")],
      color_ramps |-> Table("absent", {}), conversions |-> Table("absent", {}),
      formulas |-> StdFormulas]}
    \cup
    {c \in [doc : {"map"},
            keys : {{"model", "product"}, {"model"}},
            variables : {Table("absent", {}), Table("null", {}), Table("map", {})},
            m : [CatNames -> E \cup Malformed],
            color_ramps : {Table("absent", {}), Table("null", {}),
                           Table("map", {"temperature"})},
            conversions : {Table("absent", {}), Table("null", {}),
                           Table("map", {"kelvin_to_celsius"})},
            formulas : {StdFormulas}] :
        c.variables.k # "map" => \A v \in CatNames : c.m[v].k = "absent"}

\* self.config.get('variables', {}).items(): the names present, in order.
Items(c) ==
    IF c.variables.k = "map"
    THEN SelectSeq(CatVars, LAMBDA v : c.m[v].k # "absent") ELSE <<>>

\* An issue: its kind, the variable (or top-level key) and the reference.
Issue(t, v, r) == <<t, v, r>>

\* Lines 245-253: the required top-level keys, then "No variables defined".
\* A key without a value is present.
TopIssues(c) ==
    LET present == c.keys \cup (IF c.variables.k = "absent" THEN {} ELSE {"variables"})
        required_keys == <<"model", "product", "variables">>
        missing == SelectSeq(required_keys, LAMBDA k : k \notin present)
    IN  [i \in 1..Len(missing) |-> Issue("missing_key", missing[i], "")]
        \o (IF Items(c) = <<>> THEN <<Issue("no_variables", "", "")>> ELSE <<>>)

\* Lines 257-260: one issue per required field the entry lacks.  For a
\* scalar entry "key not in var_config" is a substring test, true of each.
ReqIssues(v, e) ==
    LET missing == SelectSeq(required_var_keys, LAMBDA k : k \notin e.req)
    IN  [i \in 1..Len(missing) |-> Issue("var_missing", v, missing[i])]

\* A reference checked against the conversions table.
UndefinedInConversions(c, name) == name \notin c.conversions.names

\* Line 265: ramp_name not in self.config.get('color_ramps', {}).
UndefinedRamp(c, name) == name \notin c.color_ramps.names

\* Line 271: conversion_name not in self.config.get('conversions', {}).
UndefinedConversion(c, name) == name \notin c.conversions.names

\* Lines 255-272 for one variable: the issues appended, and whether the
\* iteration raises (TypeError at "in None", AttributeError at ".get" of a
\* scalar) and leaves validate.
VarCheck(c, v) ==
    LET e == c.m[v]
        rampRaises == e.ramp # "" /\ c.color_ramps.k = "null"
        convRaises == e.conv # "" /\ c.conversions.k = "null"
    IN  IF e.k = "null" THEN [add |-> <<>>, raised |-> TRUE]
        ELSE IF e.k = "str" THEN [add |-> ReqIssues(v, e), raised |-> TRUE]
        ELSE [add |-> ReqIssues(v, e)
                      \o (IF e.ramp # "" /\ ~rampRaises /\ UndefinedRamp(c, e.ramp)
                          THEN <<Issue("undefined_ramp", v, e.ramp)>> ELSE <<>>)
                      \o (IF e.conv # "" /\ ~rampRaises /\ ~convRaises
                             /\ UndefinedConversion(c, e.conv)
                          THEN <<Issue("undefined_conversion", v, e.conv)>> ELSE <<>>),
              raised |-> rampRaises \/ convRaises]

CatIdle ==
    /\ config = [doc |-> "null", keys |-> {}, variables |-> Table("absent", {}),
                 m |-> [v \in CatNames |-> NoEntry("absent")],
                 color_ramps |-> Table("absent", {}),
                 conversions |-> Table("absent", {}),
                 formulas |-> StdFormulas]
    /\ cop = "idle"
    /\ carg = [priority |-> 0, names |-> <<>>]
    /\ cpc = "idle"
    /\ vq = <<>>
    /\ issues = <<>>
    /\ cres = {}

\* VariableConfig(path) has loaded a document; validate() is called.
InitValidate ==
    /\ config \in Catalogs(EntryShapes)
    /\ cop = "validate"
    /\ carg = [priority |-> 0, names |-> <<>>]
    /\ cpc = "start"
    /\ vq = <<>>
    /\ issues = <<>>
    /\ cres = {}

\* Lines 242-255: the top-level checks; "key not in self.config" raises for
\* an empty document, variables.items() raises for a null 'variables'.
ValidateTop ==
    /\ cop = "validate" /\ cpc = "start"
    /\ IF config.doc = "null"
       THEN cpc' = "raised" /\ UNCHANGED <<issues, vq>>
       ELSE /\ issues' = TopIssues(config)
            /\ vq' = Items(config)
            /\ cpc' = IF config.variables.k = "null" THEN "raised" ELSE "vars"
    /\ UNCHANGED <<config, cop, carg, cres>>
    /\ CatOnly

\* Lines 255-272: one iteration of the loop over the variables.
ValidateVar ==
    /\ cop = "validate" /\ cpc = "vars" /\ vq # <<>>
    /\ LET r == VarCheck(config, Head(vq)) IN
         /\ issues' = issues \o r.add
         /\ cpc' = IF r.raised THEN "raised" ELSE "vars"
    /\ vq' = Tail(vq)
    /\ UNCHANGED <<config, cop, carg, cres>>
    /\ CatOnly

\* Line 274: return issues.
ValidateReturn ==
    /\ cop = "validate" /\ cpc = "vars" /\ vq = <<>>
    /\ cpc' = "returned"
    /\ UNCHANGED <<config, cop, carg, vq, issues, cres>>
    /\ CatOnly

NextValidate == ValidateTop \/ ValidateVar \/ ValidateReturn

\* An entry counted as enabled whenever the flag is not false.
EnabledUnlessFalse(e) == e.enabled # "false"

\* Line 55: var_config.get('enabled', False).
EnabledFlag(e) == e.enabled = "true"

\* Lines 51-56: get_enabled_variables as the set of names of its result.
get_enabled_variables(c) == {v \in CatNames : c.m[v].k = "map" /\ EnabledFlag(c.m[v])}

\* Lines 68-77: get_variables_by_priority; level 0 stands for None.
get_variables_by_priority(c, level) ==
    IF level = 0 THEN get_enabled_variables(c)
    ELSE {v \in get_enabled_variables(c) : c.m[v].priority = level}

\* Lines 51-55: self.config.get, variables.items() and var_config.get raise
\* AttributeError for an empty document, a null 'variables' and an entry
\* that is not a mapping.
QueryRaises(c) ==
    \/ c.doc = "null"
    \/ c.variables.k = "null"
    \/ \E v \in CatNames : c.m[v].k \in {"null", "str"}

\* process_weather.py 603-619: the variables process_grib_file will run.
\* A non-empty list of names selects the named entries of the catalog.
vars_to_process(c, a) ==
    IF a.names # <<>>
    THEN {a.names[i] : i \in 1..Len(a.names)} \cap {v \in CatNames : c.m[v].k # "absent"}
    ELSE get_variables_by_priority(c, a.priority)

\* The catalog is loaded; one of its queries, or the selection of
\* process_grib_file, is called.
InitSelect ==
    /\ config \in Catalogs(EntryFlags)
    /\ cop \in {"get_enabled_variables", "get_variables_by_priority",
                "process_grib_file"}
    /\ carg \in [priority : 0..2,
                 names : {<<>>, <<"wind_u_10m">>, <<"unknown", "temperature_2m">>,
                          <<"temperature_2m", "wind_u_10m">>}]
    /\ cop = "get_enabled_variables" => carg = [priority |-> 0, names |-> <<>>]
    /\ cop = "get_variables_by_priority" => carg.names = <<>>
    /\ cpc = "start"
    /\ vq = <<>>
    /\ issues = <<>>
    /\ cres = {}

\* Lines 44-56.
GetEnabledVariables ==
    /\ cop = "get_enabled_variables" /\ cpc = "start"
    /\ IF QueryRaises(config)
       THEN cpc' = "raised" /\ cres' = cres
       ELSE cpc' = "returned" /\ cres' = get_enabled_variables(config)
    /\ UNCHANGED <<config, cop, carg, vq, issues>>
    /\ CatOnly

\* Lines 58-77.
GetVariablesByPriority ==
    /\ cop = "get_variables_by_priority" /\ cpc = "start"
    /\ IF QueryRaises(config)
       THEN cpc' = "raised" /\ cres' = cres
       ELSE cpc' = "returned" /\ cres' = get_variables_by_priority(config, carg.priority)
    /\ UNCHANGED <<config, cop, carg, vq, issues>>
    /\ CatOnly

\* process_weather.py 603-619.  With a list of names only the 'variables'
\* table is read ("name in all_vars" raises for a null table); the entries
\* are not inspected.
SelectVariables ==
    /\ cop = "process_grib_file" /\ cpc = "start"
    /\ IF \/ config.doc = "null"
          \/ (carg.names # <<>> /\ config.variables.k = "null")
          \/ (carg.names = <<>> /\ QueryRaises(config))
       THEN cpc' = "raised" /\ cres' = cres
       ELSE cpc' = "returned" /\ cres' = vars_to_process(config, carg)
    /\ UNCHANGED <<config, cop, carg, vq, issues>>
    /\ CatOnly

NextSelect == GetEnabledVariables \/ GetVariablesByPriority \/ SelectVariables

-----------------------------------------------------------------------------
(* Unit Converter: apply_conversion (config_manager.py 125-153) and         *)
(* apply_unit_conversion (process_weather.py 255-315).                      *)

MaxSamples == 2
MaxApplied == 2

\* Values of the state outside the call.
Ambients == {0, 1}

\* Line 151: eval(formula, {"value": value, "__builtins__": {}}).  The only
\* name bound is value; any other name is NameError.  Attribute access is
\* not restricted: an expression can walk from a literal to object's
\* subclasses and from there to the globals of any loaded module, and so
\* read and write the state of the process.
Eval(formula, value, amb) ==
    IF formula = "value - 273" THEN [ok |-> TRUE, val |-> value - 273, amb |-> amb]
    ELSE IF formula = "value * 2" THEN [ok |-> TRUE, val |-> value * 2, amb |-> amb]
    ELSE IF formula = "value * 2 - 460"
    THEN [ok |-> TRUE, val |-> value * 2 - 460, amb |-> amb]
    ELSE IF formula = "().__class__.__base__.__subclasses__()"
    THEN [ok |-> TRUE, val |-> value + amb, amb |-> 1 - amb]
    ELSE \* "value / 0": ZeroDivisionError; "value - offset": NameError;
         \* "value -": SyntaxError
         [ok |-> FALSE, val |-> 0, amb |-> amb]

Formulas == {"value - 273", "value * 2", "value / 0", "value - offset", "value -",
             "().__class__.__base__.__subclasses__()"}

\* What a call ends with: a returned value, or an exception of class k whose
\* message names the conversion `names` ("" when it names none).
Outcome(k, val, names, amb) == [k |-> k, val |-> val, names |-> names, amb |-> amb]

\* Lines 139-153, with get_conversion_formula (line 123).
apply_conversion(c, value, name, amb) ==
    IF c.doc = "null" \/ c.conversions.k = "null"
    THEN Outcome("AttributeError", 0, "", amb)            \* line 123
    ELSE IF \/ c.conversions.k = "absent"
            \/ name \notin c.conversions.names
            \/ c.formulas[name].k = "null"
    THEN Outcome("ValueError", 0, name, amb)              \* line 141
    ELSE IF c.formulas[name].k = "str"
    THEN Outcome("AttributeError", 0, "", amb)            \* line 143
    ELSE IF c.formulas[name].formula \in {"absent", ""}
    THEN Outcome("ValueError", 0, name, amb)              \* line 145
    ELSE LET r == Eval(c.formulas[name].formula, value, amb) IN
         IF r.ok THEN Outcome("value", r.val, "", r.amb)  \* line 151
         ELSE Outcome("ValueError", 0, name, r.amb)       \* line 153

\* A sample of a grid: a number or NaN.
Num(v) == [nan |-> FALSE, v |-> v]
NaN == [nan |-> TRUE, v |-> 0]

\* Unit tags GDAL writes as GRIB_UNIT, and the empty tag.
UnitTags == {<<>>, <<"[", "K", "]">>, <<"[", "C", "]">>, <<"[", "F", "]">>,
             <<"[", "m", "/", "s", "]">>, <<"[", "m", "p", "h", "]">>}

\* The skip test without the Fahrenheit case.
AlreadyCelsiusOnly(conversion_name, grib_unit) ==
    /\ grib_unit # <<>>
    /\ conversion_name = "kelvin_to_celsius" /\ Contains(<<"[", "C", "]">>, grib_unit)

\* Lines 277-289: the grid is taken to be in the target units already.
AlreadyInTargetUnits(conversion_name, grib_unit) ==
    /\ grib_unit # <<>>
    /\ \/ conversion_name = "kelvin_to_celsius" /\ Contains(<<"[", "C", "]">>, grib_unit)
       \/ conversion_name = "kelvin_to_fahrenheit"
             /\ Contains(<<"[", "F", "]">>, grib_unit)

\* A mask that looks for NaN only, whatever the sentinel.
ValidNotNaN(g, i) == ~g.values[i].nan

\* Lines 294-300: valid_mask.  NaN differs from every sentinel.
Valid(g, i) ==
    IF g.nodata.set THEN g.values[i] # Num(g.nodata.v) ELSE ~g.values[i].nan

\* A conversion that also writes the target unit into the unit tag.
apply_unit_conversion_retagging(g, conversion_name, c, amb) ==
    LET conv(i) == apply_conversion(c, g.values[i].v, conversion_name, amb)
        valid == {i \in 1..Len(g.values) : Valid(g, i)}
        tag == IF conversion_name = "kelvin_to_celsius" THEN <<"[", "C", "]">>
               ELSE IF conversion_name = "kelvin_to_fahrenheit" THEN <<"[", "F", "]">>
               ELSE <<"[", "m", "p", "h", "]">>
    IN  IF conversion_name = "" \/ AlreadyInTargetUnits(conversion_name, g.unit)
        THEN [raised |-> FALSE, grid |-> g]
        ELSE IF valid = {} \/ \E i \in valid : ~g.values[i].nan /\ conv(i).k # "value"
        THEN [raised |-> TRUE, grid |-> g]
        ELSE [raised |-> FALSE,
              grid |-> [g EXCEPT !.unit = tag, !.values =
                          [i \in 1..Len(g.values) |->
                              IF i \in valid /\ ~g.values[i].nan
                              THEN Num(conv(i).val) ELSE g.values[i]]]]

\* Lines 273-315.  The result: the grid returned (a copy, line 303, with
\* the unit tag, spatial reference and sentinel of the input), or raised.
\* Every valid sample goes through apply_conversion (NaN stays NaN); the log line of
\* 311-312 takes min() of the valid samples, which raises when there are
\* none.
apply_unit_conversion(g, conversion_name, c, amb) ==
    LET conv(i) == apply_conversion(c, g.values[i].v, conversion_name, amb)
        valid == {i \in 1..Len(g.values) : Valid(g, i)}
    IN  IF conversion_name = "" \/ AlreadyInTargetUnits(conversion_name, g.unit)
        THEN [raised |-> FALSE, grid |-> g]
        ELSE IF valid = {} \/ \E i \in valid : ~g.values[i].nan /\ conv(i).k # "value"
        THEN [raised |-> TRUE, grid |-> g]
        ELSE [raised |-> FALSE,
              grid |-> [g EXCEPT !.values =
                          [i \in 1..Len(g.values) |->
                              IF i \in valid /\ ~g.values[i].nan
                              THEN Num(conv(i).val) ELSE g.values[i]]]]

NoGrid == [unit |-> <<>>, crs |-> "", nodata |-> [set |-> FALSE, v |-> 0],
           values |-> <<>>]

ConvIdle ==
    /\ karg = [value |-> 0, name |-> "", ambient |-> 0, grid |-> NoGrid]
    /\ kpc = "idle"
    /\ ambient = 0
    /\ cout = Outcome("", 0, "", 0)
    /\ grid = NoGrid
    /\ applied = 0
    /\ uraised = FALSE

\* A catalog whose variables are well formed and whose 'conversions' table
\* is absent, null, or defines kelvin_to_celsius in every way a document
\* can; apply_conversion(value, name) is called.
InitConvert ==
    /\ \E t \in {Table("absent", {}), Table("null", {}),
                 Table("map", {"kelvin_to_celsius"})},
          f \in {Conversion("null", "absent"), Conversion("str", "absent")}
                 \cup {Conversion("map", x) : x \in Formulas \cup {"absent", ""}} :
          /\ t.k # "map" => f = Conversion("map", "value - 273")
          /\ config = [doc |-> "map", keys |-> {"model", "product"},
                       variables |-> Table("map", {}),
                       m |-> [v \in CatNames |->
                                [k |-> "map",
                                 req |-> {"grib_search", "display_name",
                                          "units_source", "units_display"},
                                 ramp |-> "", conv |-> "kelvin_to_celsius",
                                 enabled |-> "true", priority |-> 1]],
                       color_ramps |-> Table("absent", {}),
                       conversions |-> t,
                       formulas |-> [StdFormulas EXCEPT !["kelvin_to_celsius"] = f]]
    /\ cop = "idle" /\ cpc = "idle" /\ vq = <<>> /\ issues = <<>> /\ cres = {}
    /\ carg = [priority |-> 0, names |-> <<>>]
    /\ ambient \in Ambients
    /\ karg \in [value : {0, 273, 300}, name : {"kelvin_to_celsius", "mps_to_mph"},
                 ambient : {ambient}, grid : {NoGrid}]
    /\ kpc = "start"
    /\ cout = Outcome("", 0, "", 0)
    /\ grid = NoGrid
    /\ applied = 0
    /\ uraised = FALSE

\* config_manager.py 125-153: one call of apply_conversion.
ApplyConversionCall ==
    /\ kpc = "start"
    /\ cout' = apply_conversion(config, karg.value, karg.name, ambient)
    /\ ambient' = cout'.amb
    /\ kpc' = "done"
    /\ UNCHANGED <<config, karg, grid, applied, uraised>>
    /\ ConvOnly

NextConvert == ApplyConversionCall

\* A well-formed catalog defining the three conversions; a grid read from
\* a GRIB band; apply_unit_conversion is called with a conversion name.
InitUnits ==
    /\ config = [doc |-> "map", keys |-> {"model", "product"},
                 variables |-> Table("map", {}),
                 m |-> [v \in CatNames |->
                          [k |-> "map",
                           req |-> {"grib_search", "display_name",
                                    "units_source", "units_display"},
                           ramp |-> "", conv |-> "kelvin_to_celsius",
                           enabled |-> "true", priority |-> 1]],
                 color_ramps |-> Table("absent", {}),
                 conversions |-> Table("map", {"kelvin_to_celsius",
                                               "kelvin_to_fahrenheit", "mps_to_mph"}),
                 formulas |-> StdFormulas]
    /\ cop = "idle" /\ cpc = "idle" /\ vq = <<>> /\ issues = <<>> /\ cres = {}
    /\ carg = [priority |-> 0, names |-> <<>>]
    /\ ambient = 0
    /\ grid \in [unit : UnitTags, crs : {"EPSG:4326", "lcc"},
                 nodata : {[set |-> FALSE, v |-> 0], [set |-> TRUE, v |-> 9999]},
                 values : UNION {[1..n -> {Num(0), Num(273), Num(300), Num(9999), NaN}] :
                                    n \in 0..MaxSamples}]
    /\ karg \in [value : {0},
                 name : {"", "kelvin_to_celsius", "kelvin_to_fahrenheit", "mps_to_mph"},
                 ambient : {0}, grid : {grid}]
    /\ kpc = "start"
    /\ cout = Outcome("", 0, "", 0)
    /\ applied = 0
    /\ uraised = FALSE

\* process_weather.py 255-315: apply_unit_conversion is applied to the
\* grid, or again to the grid it returned.
ApplyUnitConversion ==
    /\ kpc = "start"
    /\ applied < MaxApplied /\ ~uraised
    /\ LET r == apply_unit_conversion(grid, karg.name, config, ambient) IN
         /\ grid' = r.grid
         /\ uraised' = r.raised
    /\ applied' = applied + 1
    /\ UNCHANGED <<config, karg, kpc, ambient, cout>>
    /\ ConvOnly

NextUnits == ApplyUnitConversion

-----------------------------------------------------------------------------
(* Tile Slicer, one input file followed by name: parse_cog_filename        *)
(* (generate_tiles.py 123-182), fix_srs_if_needed (51-120), the            *)
(* directory names organize_tile_structure publishes (407-426) and the     *)
(* scan of get_available_runs (generate_metadata.py 96-138).               *)

\* Pieces of file names, and the literals of lines 145-176.
Str ==
    [colored |-> <<"_", "c", "o", "l", "o", "r", "e", "d">>,
     us |-> <<"_">>,
     dot |-> <<".">>,
     dot_t |-> <<".", "t">>,
     dot_f |-> <<".", "f">>,
     T |-> <<"T">>,
     unknown |-> <<"u", "n", "k", "n", "o", "w", "n">>,
     hrrr |-> <<"h", "r", "r", "r">>,
     gfs_wave |-> <<"g", "f", "s", "_", "w", "a", "v", "e">>,
     gfs |-> <<"g", "f", "s">>,
     nam |-> <<"n", "a", "m">>,
     ecmwf |-> <<"e", "c", "m", "w", "f">>,
     temperature_2m |-> <<"t", "e", "m", "p", "e", "r", "a", "t", "u", "r",
         "e", "_", "2", "m">>,
     gfs_wind |-> <<"g", "f", "s", "_", "w", "i", "n", "d">>,
     temperature |-> <<"t", "e", "m", "p", "e", "r", "a", "t", "u", "r", "e">>,
     latest |-> <<"t", "e", "m", "p", "e", "r", "a", "t", "u", "r", "e", "_",
         "2", "m", "_", "h", "r", "r", "r", "_", "l", "a", "t", "e", "s",
         "t">>,
     d8 |-> <<"2", "0", "2", "6", "0", "1", "1", "0">>,
     d7 |-> <<"2", "0", "2", "6", "0", "1", "1">>,
     c19z |-> <<"1", "9", "z">>,
     c9z |-> <<"9", "z">>,
     f00 |-> <<"0", "0">>,
     f012 |-> <<"0", "1", "2">>,
     f0000 |-> <<"0", "0", "0", "0">>,
     wind_u_10m |-> <<"w", "i", "n", "d", "_", "u", "_", "1", "0", "m">>,
     visibility |-> <<"v", "i", "s", "i", "b", "i", "l", "i", "t", "y">>,
     grib2 |-> <<".", "g", "r", "i", "b", "2">>,
     z0 |-> <<"0">>,
     z10 |-> <<"1", "0">>,
     xml |-> <<"t", "i", "l", "e", "m", "a", "p", "r", "e", "s", "o", "u",
         "r", "c", "e", ".", "x", "m", "l">>]

\* str.isdigit()
IsDigit(s) == Len(s) > 0 /\ \A i \in 1..Len(s) : s[i] \in Digits

\* s[i:].startswith(t), positions from 1
StartsAt(s, i, t) == i >= 1 /\ i + Len(t) - 1 <= Len(s) /\ SubSeq(s, i, i + Len(t) - 1) = t

\* Lines 143-182.  The pattern of line 151,
\*   ^(.+?)_(hrrr|gfs_wave|gfs|nam)\.(\d{8})\.t(\d{2}z)\.f(\d{2,3})$ ,
\* matches at the shortest variable part p for which an underscore, a model
\* name and the dotted date, cycle and forecast fields run to the end of
\* the name; j is the position of the dot after the model name.  The
\* fallback of lines 164-180 takes the text before the first
\* underscore-separated part that starts with hrrr, gfs or nam.
parse_cog_filename(stem) ==
    LET name == IF Len(stem) >= 8 /\ StartsAt(stem, Len(stem) - 7, Str.colored)
                THEN SubSeq(stem, 1, Len(stem) - 8) ELSE stem
        n == Len(name)
        DateTail(j) ==
            /\ StartsAt(name, j, Str.dot) /\ IsDigit(SubSeq(name, j + 1, j + 8))
            /\ StartsAt(name, j + 9, Str.dot_t) /\ IsDigit(SubSeq(name, j + 11, j + 12))
            /\ StartsAt(name, j + 13, <<"z">>) /\ StartsAt(name, j + 14, Str.dot_f)
            /\ n - (j + 15) \in {2, 3} /\ IsDigit(SubSeq(name, j + 16, n))
        models == <<Str.hrrr, Str.gfs_wave, Str.gfs, Str.nam>>
        Hit(p, k) == /\ StartsAt(name, p + 1, Str.us)
                     /\ StartsAt(name, p + 2, models[k])
                     /\ DateTail(p + 2 + Len(models[k]))
        ps == {p \in 1..n : \E k \in 1..4 : Hit(p, k)}
        prefixes == {Str.hrrr, Str.gfs, Str.nam}
        qs == {q \in 1..n : /\ q = 1 \/ name[q - 1] = "_"
                            /\ \E m \in prefixes : StartsAt(name, q, m)}
    IN  IF ps # {}
        THEN LET p == CHOOSE x \in ps : \A y \in ps : x <= y
                 k == CHOOSE x \in 1..4 : Hit(p, x) /\ \A y \in 1..4 : Hit(p, y) => x <= y
                 j == p + 2 + Len(models[k])
             IN  [ok |-> TRUE, variable |-> SubSeq(name, 1, p), model |-> models[k],
                  date |-> SubSeq(name, j + 1, j + 8),
                  cycle |-> SubSeq(name, j + 11, j + 13),
                  forecast |-> SubSeq(name, j + 16, n)]
        ELSE IF (\E i \in 1..n : name[i] = "_") /\ qs # {}
        THEN LET q == CHOOSE x \in qs : \A y \in qs : x <= y
             IN  [ok |-> TRUE, variable |-> SubSeq(name, 1, q - 2), model |-> Str.unknown,
                  date |-> Str.unknown, cycle |-> Str.unknown, forecast |-> Str.unknown]
        ELSE [ok |-> FALSE, variable |-> <<>>, model |-> <<>>, date |-> <<>>,
              cycle |-> <<>>, forecast |-> <<>>]

\* The fix decision without the ENGCRS marker.
needs_fix_datum_only(s) ==
    IF s.ref
    THEN s.marker = "Unknown engineering datum" \/ s.code # "3857"
    ELSE TRUE

\* Lines 76-97: needs_fix.  s.code is GetAuthorityCode(None), "" for None.
needs_fix(s) ==
    IF s.ref
    THEN IF s.marker \in {"Unknown engineering datum", "ENGCRS"} THEN TRUE
         ELSE s.code = "" \/ s.code # "3857"
    ELSE TRUE

\* Lines 416-417: the entries of the scratch directory gdal2tiles filled:
\* zoom directories and the files it writes beside them.
Scratch == {[name |-> Str.z0, dir |-> TRUE], [name |-> Str.z10, dir |-> TRUE],
            [name |-> Str.xml, dir |-> FALSE]}

NoMeta == [ok |-> FALSE, variable |-> <<>>, model |-> <<>>, date |-> <<>>,
           cycle |-> <<>>, forecast |-> <<>>]
NoTree == [variable |-> <<>>, ts |-> <<>>, forecast |-> <<>>, zooms |-> {}]

FileIdle ==
    /\ fname = <<>>
    /\ srs = [ref |-> FALSE, marker |-> "", code |-> ""]
    /\ fpc = "idle"
    /\ meta = NoMeta
    /\ fixed = [ret |-> "", temp |-> "none", input |-> "intact"]
    /\ tree = NoTree
    /\ runs = {}

\* main, lines 555-556: one input file of a run with --organize: any of
\* the names the glob may yield, with any spatial reference.
InitFile ==
    /\ fname \in
          {v \o Str.us \o mdl \o Str.dot \o d \o Str.dot_t \o c \o Str.dot_f \o f \o suf :
              v \in {Str.temperature_2m, Str.gfs_wind},
              mdl \in {Str.hrrr, Str.gfs_wave, Str.ecmwf},
              d \in {Str.d8, Str.d7}, c \in {Str.c19z, Str.c9z},
              f \in {Str.f00, Str.f012, Str.f0000}, suf \in {<<>>, Str.colored}}
          \cup {Str.temperature, Str.latest, Str.latest \o Str.colored}
    /\ srs \in {[ref |-> FALSE, marker |-> "", code |-> ""]}
               \cup [ref : {TRUE}, marker : {"", "Unknown engineering datum", "ENGCRS"},
                     code : {"3857", "4326", ""}]
    /\ fpc = "parse"
    /\ meta = NoMeta
    /\ fixed = [ret |-> "", temp |-> "none", input |-> "intact"]
    /\ tree = NoTree
    /\ runs = {}

\* main, lines 561-566: the name is parsed; a file whose name does not
\* parse is skipped.
ParseCogFilename ==
    /\ fpc = "parse"
    /\ meta' = parse_cog_filename(fname)
    /\ fpc' = IF meta'.ok THEN "srs" ELSE "skipped"
    /\ UNCHANGED <<fname, srs, fixed, tree, runs>>
    /\ FileOnly

\* Lines 51-120, called at line 581.  gdal.Translate writes the corrected
\* copy to a fresh temporary path, or raises (gdal.UseExceptions) and may
\* leave part of it; the exception ends this file at main's handler, 642.
\* With exceptions enabled (line 29) a failed Translate raises, so the
\* branch of lines 116-118 is not taken.
FixSrsIfNeeded ==
    /\ fpc = "srs"
    /\ \/ /\ ~needs_fix(srs)
          /\ fixed' = [fixed EXCEPT !.ret = "input"]
          /\ fpc' = "tiles"
       \/ /\ needs_fix(srs)
          /\ fixed' = [fixed EXCEPT !.ret = "temp", !.temp = "written"]
          /\ fpc' = "tiles"
       \/ /\ needs_fix(srs)
          /\ \E t \in {"none", "partial"} : fixed' = [fixed EXCEPT !.temp = t]
          /\ fpc' = "failed"
    /\ UNCHANGED <<fname, srs, meta, tree, runs>>
    /\ FileOnly

\* main, lines 584-603: tiles are generated from the returned path; the
\* returned path is unlinked when it is not the input path (596-597); a
\* generation that reports failure ends this file after the cleanup, one
\* that raises ends it before (642).
GenerateAndCleanup ==
    LET Unlink(path) == IF path = "temp" THEN [fixed EXCEPT !.temp = "none"]
                        ELSE [fixed EXCEPT !.input = "deleted"]
    IN  /\ fpc = "tiles"
        /\ \/ /\ fixed' = IF fixed.ret # "input" THEN Unlink(fixed.ret) ELSE fixed
              /\ fpc' \in {"organize", "failed"}
           \/ /\ fixed' = fixed
              /\ fpc' = "failed"
        /\ UNCHANGED <<fname, srs, meta, tree, runs>>
        /\ FileOnly

\* Lines 407-426: the organized path, and the digit-named directories of
\* the scratch directory moved under it.
OrganizePublish ==
    /\ fpc = "organize"
    /\ tree' = [variable |-> meta.variable,
                ts |-> meta.date \o Str.T \o meta.cycle,
                forecast |-> meta.forecast,
                zooms |-> {e.name : e \in {x \in Scratch : x.dir /\ IsDigit(x.name)}}]
    /\ fpc' = "scan"
    /\ UNCHANGED <<fname, srs, meta, fixed, runs>>
    /\ FileOnly

\* generate_metadata.py 96-138: the forecast directories of every
\* timestamp directory, the digit-named ones only.
GetAvailableRuns ==
    /\ fpc = "scan"
    /\ runs' = IF IsDigit(tree.forecast) THEN {<<tree.ts, tree.forecast>>} ELSE {}
    /\ fpc' = "done"
    /\ UNCHANGED <<fname, srs, meta, fixed, tree>>
    /\ FileOnly

NextFile ==
    \/ ParseCogFilename
    \/ FixSrsIfNeeded
    \/ GenerateAndCleanup
    \/ OrganizePublish
    \/ GetAvailableRuns

-----------------------------------------------------------------------------
(* Color Mapper: scripts/processing/apply_colormap.py, with the raster      *)
(* name process_variable builds (process_weather.py 557-561) and the         *)
(* Tile Slicer's parse of the colored raster's name.                        *)

MaxStops == 2

\* Hex colors of the stops of a ramp: with '#', without, mixed case, and
\* the three-digit shorthand.
Hex ==
    [indigo |-> <<"#", "1", "A", "0", "0", "6", "6">>,
     red |-> <<"f", "f", "0", "0", "0", "0">>,
     spring |-> <<"#", "0", "0", "F", "f", "7", "f">>,
     short |-> <<"#", "F", "F", "F">>]

\* The conversion of a hex color without lstrip('#').
rgb_keeping_hash(hex_color) ==
    LET HexInt(t) ==
            LET d == <<"0","1","2","3","4","5","6","7","8","9","a","b","c","d","e","f">>
                val(c) == (CHOOSE n \in 1..16 : d[n] = c) - 1
                l == Lower(t)
            IN  IF Len(l) = 0 \/ \E i \in 1..Len(l) : ~\E n \in 1..16 : d[n] = l[i]
                THEN -1
                ELSE IF Len(l) = 1 THEN val(l[1]) ELSE 16 * val(l[1]) + val(l[2])
        Slice(a, b) == SubSeq(hex_color, a, IF b < Len(hex_color) THEN b ELSE Len(hex_color))
        r == HexInt(Slice(1, 2))
        g == HexInt(Slice(3, 4))
        b == HexInt(Slice(5, 6))
    IN  [ok |-> r >= 0 /\ g >= 0 /\ b >= 0, r |-> r, g |-> g, b |-> b]

\* Lines 91-98: hex_color.lstrip('#'), then int(hex_color[0:2], 16) and so
\* on for [2:4] and [4:6]; int() of an empty slice or of a slice with a
\* character that is no hex digit raises ValueError (ok is FALSE).
rgb(hex_color) ==
    LET keep == {i \in 1..Len(hex_color) : hex_color[i] # "#"}
        h == IF keep = {} THEN <<>>
             ELSE SubSeq(hex_color, CHOOSE i \in keep : \A j \in keep : i <= j,
                         Len(hex_color))
        HexInt(t) ==
            LET d == <<"0","1","2","3","4","5","6","7","8","9","a","b","c","d","e","f">>
                val(c) == (CHOOSE n \in 1..16 : d[n] = c) - 1
                l == Lower(t)
            IN  IF Len(l) = 0 \/ \E i \in 1..Len(l) : ~\E n \in 1..16 : d[n] = l[i]
                THEN -1
                ELSE IF Len(l) = 1 THEN val(l[1]) ELSE 16 * val(l[1]) + val(l[2])
        Slice(a, b) == SubSeq(h, a, IF b < Len(h) THEN b ELSE Len(h))
        r == HexInt(Slice(1, 2))
        g == HexInt(Slice(3, 4))
        b == HexInt(Slice(5, 6))
    IN  [ok |-> r >= 0 /\ g >= 0 /\ b >= 0, r |-> r, g |-> g, b |-> b]

\* A row of color_ramp.txt: the key (a threshold, or nv), three bytes, and
\* the alpha column (-1: the row has no alpha column).
Row(nv, v, r, g, b, a) == [nv |-> nv, v |-> v, r |-> r, g |-> g, b |-> b, a |-> a]

\* Path.stem: the name without its last suffix.
Stem(name) ==
    LET dots == {i \in 2..Len(name) : name[i] = "."} IN
    IF dots = {} THEN name
    ELSE SubSeq(name, 1, (CHOOSE i \in dots : \A j \in dots : i >= j) - 1)

\* Lines 278-318: the text before the first underscore-separated part that
\* starts with hrrr or gfs; without such a part the first two parts; None
\* (here <<>>, which main treats like '') when there is one part only.
infer_variable_name(stem) ==
    LET name == IF Len(stem) >= 8 /\ StartsAt(stem, Len(stem) - 7, Str.colored)
                THEN SubSeq(stem, 1, Len(stem) - 8) ELSE stem
        n == Len(name)
        us == {i \in 1..n : name[i] = "_"}
        qs == {q \in 1..n : /\ q = 1 \/ name[q - 1] = "_"
                            /\ \E m \in {Str.hrrr, Str.gfs} : StartsAt(name, q, m)}
    IN  IF qs # {}
        THEN SubSeq(name, 1, (CHOOSE x \in qs : \A y \in qs : x <= y) - 2)
        ELSE IF Cardinality(us) >= 2
        THEN SubSeq(name, 1, (CHOOSE x \in us : Cardinality({y \in us : y < x}) = 1) - 1)
        ELSE IF us # {} THEN name
        ELSE <<>>

ColorIdle ==
    /\ src = [file |-> <<>>, model |-> <<>>, fxx |-> <<>>, variable |-> <<>>]
    /\ cogname = <<>>
    /\ inferred = <<>>
    /\ ramp = <<>>
    /\ cfile = <<>>
    /\ mpc = "idle"
    /\ colored = <<>>
    /\ parsed = NoMeta

\* A source file as the download scripts name it (download_hrrr.py 357,
\* download_gfs_wave.py 370), a variable of the catalog being extracted
\* from it, and the color ramp the catalog gives the variable.
InitColor ==
    /\ \E mdl \in {Str.hrrr, Str.gfs_wave, Str.gfs, Str.nam}, f \in {Str.f00, Str.f012},
          v \in {Str.temperature_2m, Str.wind_u_10m, Str.visibility} :
            src = [file |-> mdl \o Str.dot \o Str.d8 \o Str.dot_t \o Str.c19z
                              \o Str.dot_f \o f \o Str.grib2,
                   model |-> mdl, fxx |-> f, variable |-> v]
    /\ ramp \in UNION {[1..n -> [value : {0 - 40, 50},
                                 color : {Hex[k] : k \in DOMAIN Hex}]] :
                          n \in 0..MaxStops}
    /\ cogname = <<>>
    /\ inferred = <<>>
    /\ cfile = <<>>
    /\ mpc = "raster"
    /\ colored = <<>>
    /\ parsed = NoMeta

\* process_weather.py 557-561: output_name = f"{variable_name}_{grib_name}.tif".
ProcessVariableName ==
    /\ mpc = "raster"
    /\ cogname' = src.variable \o Str.us \o Stem(src.file)
    /\ mpc' = "infer"
    /\ UNCHANGED <<src, inferred, ramp, cfile, colored, parsed>>
    /\ ColorOnly

\* main, lines 422-431, and process_cog_file, lines 213-228: the variable
\* is inferred from the raster's name; without a name the file is skipped,
\* and a name the catalog does not have ends process_cog_file with None.
InferVariableName ==
    /\ mpc = "infer"
    /\ inferred' = infer_variable_name(cogname)
    /\ mpc' = IF inferred' = <<>> THEN "skipped"
              ELSE IF inferred' \notin {Str.temperature_2m, Str.wind_u_10m, Str.visibility}
              THEN "failed"
              ELSE "stops"
    /\ UNCHANGED <<src, cogname, ramp, cfile, colored, parsed>>
    /\ ColorOnly

\* create_color_relief_file, lines 87-101: the row of the next stop is
\* written; a color that does not convert raises, which ends the file at
\* main's handler (line 444) with the rows written so far.
WriteColorStop ==
    /\ mpc = "stops"
    /\ Len(cfile) < Len(ramp)
    /\ LET color_stop == ramp[Len(cfile) + 1]
           c == rgb(color_stop.color)
       IN  IF c.ok
           THEN /\ cfile' = Append(cfile, Row(FALSE, color_stop.value, c.r, c.g, c.b, 0 - 1))
                /\ mpc' = mpc
           ELSE /\ cfile' = cfile
                /\ mpc' = "failed"
    /\ UNCHANGED <<src, cogname, inferred, ramp, colored, parsed>>
    /\ ColorOnly

\* Lines 103-104: "nv 0 0 0 0"; then process_cog_file, lines 237-249: the
\* output is named input_cog.stem + "_colored.tif" and apply_color_ramp
\* writes it, or fails.
WriteNoDataRow ==
    /\ mpc = "stops"
    /\ Len(cfile) = Len(ramp)
    /\ cfile' = Append(cfile, Row(TRUE, 0, 0, 0, 0, 0))
    /\ \/ colored' = cogname \o Str.colored /\ mpc' = "colored"
       \/ colored' = colored /\ mpc' = "failed"
    /\ UNCHANGED <<src, cogname, inferred, ramp, parsed>>
    /\ ColorOnly

\* generate_tiles.py main, line 561: the Tile Slicer parses the colored
\* raster's name.
ParseColoredName ==
    /\ mpc = "colored"
    /\ parsed' = parse_cog_filename(colored)
    /\ mpc' = "parsed"
    /\ UNCHANGED <<src, cogname, inferred, ramp, cfile, colored>>
    /\ ColorOnly

NextColor ==
    \/ ProcessVariableName
    \/ InferVariableName
    \/ WriteColorStop
    \/ WriteNoDataRow
    \/ ParseColoredName

\* Concurrent invocations of the Tile Slicer.
Init == InitTile /\ RasterIdle /\ BandIdle /\ CatIdle /\ ConvIdle /\ FileIdle
        /\ ColorIdle

Spec == Init /\ [][NextTile]_vars

\* One process_grib_file call.
InitSpecRaster == InitRaster /\ TileIdle /\ BandIdle /\ CatIdle /\ ConvIdle /\ FileIdle
        /\ ColorIdle

SpecRaster == InitSpecRaster /\ [][NextRaster]_vars

\* One find_band_by_search_string call.
InitSpecBand == InitBand /\ TileIdle /\ RasterIdle /\ CatIdle /\ ConvIdle /\ FileIdle
        /\ ColorIdle

SpecBand == InitSpecBand /\ [][NextBand]_vars

\* One validate() call on a loaded catalog.
InitSpecValidate == InitValidate /\ TileIdle /\ RasterIdle /\ BandIdle /\ ConvIdle /\ FileIdle
        /\ ColorIdle

SpecValidate == InitSpecValidate /\ [][NextValidate]_vars

\* One query of the catalog, or one selection by process_grib_file.
InitSpecSelect == InitSelect /\ TileIdle /\ RasterIdle /\ BandIdle /\ ConvIdle /\ FileIdle
        /\ ColorIdle

SpecSelect == InitSpecSelect /\ [][NextSelect]_vars

\* One apply_conversion call.
InitSpecConvert == InitConvert /\ TileIdle /\ RasterIdle /\ BandIdle /\ FileIdle
        /\ ColorIdle

SpecConvert == InitSpecConvert /\ [][NextConvert]_vars

\* apply_unit_conversion applied to a grid, up to MaxApplied times.
InitSpecUnits == InitUnits /\ TileIdle /\ RasterIdle /\ BandIdle /\ FileIdle
        /\ ColorIdle

SpecUnits == InitSpecUnits /\ [][NextUnits]_vars

\* A single invocation of the Tile Slicer: the second one never starts.
InitSpecSolo ==
    /\ job \in [Workers -> [file: Files, organize: BOOLEAN, ramdisk: BOOLEAN,
                            hi: Zooms]]
    /\ job["w2"] = [file |-> "fA", organize |-> FALSE, ramdisk |-> FALSE, hi |-> 1]
    /\ pc = [w \in Workers |-> IF w = "w1" THEN "start" ELSE "idle"]
    /\ todo = [w \in Workers |-> {}]
    /\ cur = [w \in Workers |-> 0]
    /\ fixedTmp = [w \in Workers |-> FALSE]
    /\ ramName = [w \in Workers |-> NoDir]
    /\ err = [w \in Workers |-> ""]
    /\ \E oldHi \in {0, MaxZoom} :
         pub = [f \in Files |-> [z \in Zooms |->
                    IF z <= oldHi THEN ZDir(Old, NoDir) ELSE Absent]]
    /\ direct = [f \in Files |-> GoneDirect]
    /\ tmpdir = [w \in Workers |-> Gone]
    /\ ram = [t \in Times |-> Gone]
    /\ RasterIdle /\ BandIdle /\ CatIdle /\ ConvIdle /\ FileIdle
        /\ ColorIdle

SpecSolo == InitSpecSolo /\ [][NextTile]_vars

\* One input file through main's loop body with --organize, then the scan.
InitSpecFile ==
    InitFile /\ TileIdle /\ RasterIdle /\ BandIdle /\ CatIdle /\ ConvIdle /\ ColorIdle

\* One raster from the Raster Transformer's naming through the Color
\* Mapper to the Tile Slicer's parse.
InitSpecColor ==
    InitColor /\ TileIdle /\ RasterIdle /\ BandIdle /\ CatIdle /\ ConvIdle /\ FileIdle

SpecColor == InitSpecColor /\ [][NextColor]_vars

SpecFile == InitSpecFile /\ [][NextFile]_vars

\* Zoom directories of invocation w's run visible under the organized tree.
PublishedBy(w) ==
    {z \in Zooms : pub[Key(w)][z].top = w \/ pub[Key(w)][z].inner = w}

\* Zoom directories written by invocation w under the output tree.
TilesUnderOutput(w) ==
    IF job[w].organize THEN PublishedBy(w)
    ELSE {z \in Zooms : direct[job[w].file].by[z] = w}

\* The zoom directories gdal2tiles generates for invocation w's zoom range.
Generated(w) == 1..job[w].hi

\* C1: at every moment the organized directory of a key holds either no zoom
\* directory of a run being organized or all the zoom directories generated
\* for that run.
C1_OrganizeAtomic ==
    \A w \in Workers :
        job[w].organize => (PublishedBy(w) = {} \/ PublishedBy(w) = Generated(w))

\* C2: once gdal2tiles has reported a non-zero status for a file, no zoom
\* directory written for that file by this invocation is under the output tree.
C2_NoTreeAfterTilingFailure ==
    \A w \in Workers :
        (pc[w] = "failed" /\ err[w] = "tiling") => TilesUnderOutput(w) = {}

\* C3: two publications of the same key never leave a zoom directory of one
\* nested inside a zoom directory of the other, and when both have returned
\* normally for the same zoom range the published zoom directories all come
\* from one of them.
C3_PublishSerialized ==
    /\ \A f \in Files, z \in Zooms : pub[f][z].inner = NoDir
    /\ \A w1, w2 \in Workers :
          (/\ w1 # w2
           /\ job[w1].organize /\ job[w2].organize
           /\ Key(w1) = Key(w2) /\ job[w1].hi = job[w2].hi
           /\ pc[w1] = "published" /\ pc[w2] = "published")
          => \E w \in {w1, w2} : \A z \in Generated(w) : pub[Key(w)][z].top = w

\* C4: two invocations generating tiles at the same time never write to the
\* same directory, and no zoom directory is written under the output tree
\* by anything but the organization step.
C4_PrivateScratch ==
    /\ \A w1, w2 \in Workers :
          (w1 # w2 /\ pc[w1] \in {"tiling", "copy"} /\ pc[w2] \in {"tiling", "copy"})
          => actual_output(w1) # actual_output(w2)
    /\ \A f \in Files, z \in Zooms : direct[f].by[z] = NoDir

\* The stage a position belongs to: before the SRS check, SRS check, tile
\* generation, organization, ended.
Stage(p) ==
    IF p = "start" THEN 0
    ELSE IF p = "srs" THEN 1
    ELSE IF p \in {"gen", "tiling", "copy", "gendone"} THEN 2
    ELSE IF p \in {"org", "org_rm", "org_mv"} THEN 3
    ELSE 4

\* C25: for every file the stages come in the order SRS check, tile
\* generation, organization; organization is entered only from a tile
\* generation that reported success; a file that has ended stays published
\* or failed, a file that has not ended can take a step, and no zoom
\* directory of a failed file is in the organized tree.
C25_StagesInOrder ==
    /\ [][\A w \in Workers :
            /\ Stage(pc'[w]) >= Stage(pc[w])
            /\ (Stage(pc'[w]) = 2 /\ Stage(pc[w]) < 2) => pc[w] = "srs"
            /\ (Stage(pc'[w]) = 3 /\ Stage(pc[w]) < 3) => pc[w] = "gendone"
            /\ pc[w] \in {"published", "failed"} => pc'[w] = pc[w]]_vars
    /\ []((\A w \in Workers : pc[w] \in {"idle", "published", "failed"}) \/ ENABLED NextTile)
    /\ [](\A w \in Workers : pc[w] = "failed" => PublishedBy(w) = {})

\* C26: after an invocation has organized its tiles under a key, the zoom
\* directories under that key are exactly those the invocation generated,
\* each of them its own; none is left from an earlier publication.
C26_NoStaleZoomDirectory ==
    \A w \in Workers :
        (pc[w] = "published" /\ job[w].organize) =>
            /\ {z \in Zooms : pub[Key(w)][z] # Absent} = Generated(w)
            /\ \A z \in Generated(w) : pub[Key(w)][z].top = w

\* C28: once a file has been handled, published or failed, none of the
\* temporary artefacts created for it remains: the SRS-corrected copy, the
\* scratch tile directory of --organize, the RAM-disk directory.
C28_NoTemporaryArtefactLeft ==
    \A w \in Workers :
        pc[w] \in {"published", "failed"} =>
            /\ ~fixedTmp[w]
            /\ ~tmpdir[w].ex
            /\ ramName[w] # NoDir => ~ram[ramName[w]].ex
-----------------------------------------------------------------------------
(* Claims about the Raster Transformer, checked under SpecRaster           *)

\* C5: when a reproject_to_web_mercator call that took the fallback path has
\* ended, by returning or by raising, neither of its two temporary files
\* exists.
C5_NoTempFileSurvives ==
    (rp.fallbacks > 0 /\ rp.ended # "") => (Src \notin tmpFiles /\ Dst \notin tmpFiles)

\* C6: a reprojection call raises only after the primary path failed and
\* one fallback was attempted and failed; and the warp of the fallback runs
\* with the resampling algorithm and target resolution of the primary path.
C6_FallbackBeforeFailure ==
    /\ rp.ended = "raised" =>
          (rp.primary = "failed" /\ rp.fallbacks = 1 /\ rp.fbFailed)
    /\ (rp.primary = "failed" /\ rp.ended # "") => rp.fallbacks = 1
    /\ rp.warped => (rp.fAlg = rp.pAlg /\ rp.fRes = rp.pRes)

\* C7: when create_cog has failed no file is at output_path, and a file is
\* at output_path only after the overview step and the COG conversion have
\* both completed.
C7_NoHalfWrittenCog ==
    /\ cog.ended \in {"false", "raised"} => outFile[vi] = "none"
    /\ \A v \in Variables :
          outFile[v] # "none" =>
              (v \in visited /\ (v = vi => (cog.overviews /\ cog.translated)))

\* C8: when process_grib_file returns, process_variable has been run for
\* every variable, and the mapping holds exactly the variables none of
\* whose stages failed; before that it never holds a variable that failed.
C8_PartialSuccess ==
    /\ results \subseteq visited \ failedVars
    /\ rpc = "done" => (visited = Variables /\ results = Variables \ failedVars)

\* A run in which the first variable failed and the second succeeded.
C8_Witness == rpc = "done" /\ 1 \in failedVars /\ 2 \in results
-----------------------------------------------------------------------------
(* Claims about the Band Resolver, checked under SpecBand                  *)

\* A level token that is a height in meters: digits, an optional blank, and
\* the unit m.
IsNumericMeterLevel(level) ==
    LET l == Lower(level) IN
    /\ Len(l) >= 2
    /\ l[Len(l)] = "m"
    /\ \E n \in 1..(Len(l) - 1) :
          /\ \A i \in 1..n : l[i] \in Digits
          /\ \A i \in (n + 1)..(Len(l) - 1) : l[i] = " "

\* The level identifier of the band encodes "entire atmosphere".
EncodesEntireAtmosphere(b) == b.lvl.short = Lvl.eatm.short

\* C9: for a search pattern whose level token is a numeric height in
\* meters, the band returned is never an entire-atmosphere band.
C9_NoEatmForMeterLevel ==
    (bpc = "done" /\ found # 0 /\ IsNumericMeterLevel(LevelOf(pattern)))
        => ~EncodesEntireAtmosphere(bands[found])

\* A meter-level search that passed over an entire-atmosphere band of the
\* requested element and returned a later band.
C9_Witness ==
    /\ bpc = "done" /\ found > 1
    /\ IsNumericMeterLevel(LevelOf(pattern))
    /\ \E i \in 1..(found - 1) :
          /\ EncodesEntireAtmosphere(bands[i])
          /\ Lower(bands[i].elem) = Lower(ElementOf(pattern))

\* Bands satisfying both conditions of the search: same element up to case
\* (the whole token), and, when a level was requested, a matching level.
Satisfying ==
    {i \in 1..Len(bands) :
        /\ Lower(bands[i].elem) = Lower(ElementOf(pattern))
        /\ (LevelOf(pattern) = <<>> \/ LevelMatches(LevelOf(pattern), bands[i]))}

\* C10: the search returns the lowest-numbered satisfying band, and None
\* exactly when there is none.
C10_FirstMatchWins ==
    bpc = "done" =>
        /\ (found = 0 <=> Satisfying = {})
        /\ (found # 0 => (found \in Satisfying /\ \A i \in Satisfying : found <= i))

\* A search in a file where several bands satisfy, which skipped a first
\* band of another element (TMPA, of which TMP is a prefix) and returned.
C10_Witness ==
    /\ bpc = "done" /\ found > 1
    /\ Cardinality(Satisfying) >= 2
    /\ bands[1].elem = Elem.TMPA /\ ElementOf(pattern) = Elem.TMP

\* C22: for a level token that is a height H in meters, the band returned
\* has the level identifier H-HTGL exactly: a band at another height whose
\* digits end in H (12 m when 2 m is asked for) is never returned.
C22_ExactHeightOnly ==
    LET level == LevelOf(pattern)
        H == SelectSeq(level, LAMBDA c : c \in Digits)
    IN  (bpc = "done" /\ found # 0 /\ IsNumericMeterLevel(level))
            => Lower(bands[found].lvl.short) = H \o Lit.htgl

\* C23: for a level token of none of the shapes entire atmosphere, surface
\* and height in meters (a pressure level, a bare level name), the band
\* returned has the requested element and a description that contains the
\* level token, case-insensitively, and None is returned exactly when no
\* band is like that.
C23_FallbackIsContainment ==
    LET level == LevelOf(pattern)
        l == Lower(level)
        other == /\ level # <<>>
                 /\ ~Contains(Lit.entire_atmosphere, l) /\ ~Contains(Lit.eatm, l)
                 /\ ~Contains(Lit.surface, l) /\ ~Contains(Lit.sfc, l)
                 /\ ~IsNumericMeterLevel(level)
        InDesc(i) == /\ Lower(bands[i].elem) = Lower(ElementOf(pattern))
                     /\ Contains(l, Lower(bands[i].lvl.desc))
    IN  (bpc = "done" /\ other) =>
            /\ (found = 0 <=> ~\E i \in 1..Len(bands) : InDesc(i))
            /\ (found # 0 => InDesc(found))
-----------------------------------------------------------------------------
(* Claims about the Variable Catalog, checked under SpecValidate            *)

\* C11: validate() never raises, whatever the document holds.
C11_ValidateNeverRaises ==
    cop = "validate" => cpc # "raised"

\* The number of issues in the list equal to i.
Count(i) == Cardinality({n \in 1..Len(issues) : issues[n] = i})

\* A reference of a variable entry is unresolved when the table it names is
\* absent or lacks the name.
Unresolved(table, name) == name # "" /\ (table.k # "map" \/ name \notin table.names)

\* C12: validate() returns exactly one issue for each unresolved color-ramp
\* or conversion reference of a variable, naming the variable and the
\* reference, and none for a reference that resolves; a catalog whose only
\* defect is one undefined color ramp yields exactly one issue.
C12_OneIssuePerReference ==
    (cop = "validate" /\ cpc = "returned") =>
        /\ \A v \in CatNames, r \in {"temperature", "wind"} :
              Count(Issue("undefined_ramp", v, r)) =
                 IF config.m[v].k = "map" /\ config.m[v].ramp = r
                    /\ Unresolved(config.color_ramps, r) THEN 1 ELSE 0
        /\ \A v \in CatNames, r \in {"kelvin_to_celsius", "mps_to_mph"} :
              Count(Issue("undefined_conversion", v, r)) =
                 IF config.m[v].k = "map" /\ config.m[v].conv = r
                    /\ Unresolved(config.conversions, r) THEN 1 ELSE 0
        /\ \A n \in 1..Len(issues) :
              issues[n][1] \in {"undefined_ramp", "undefined_conversion"} =>
                 /\ issues[n][2] \in CatNames
                 /\ issues[n][3] \in {config.m[issues[n][2]].ramp,
                                      config.m[issues[n][2]].conv}

\* A catalog with two variables whose only defect is the undefined ramp
\* "wind" of the second: validate returned that one issue.
C12_Witness ==
    /\ cop = "validate" /\ cpc = "returned"
    /\ issues = <<Issue("undefined_ramp", "wind_u_10m", "wind")>>
    /\ config.m["temperature_2m"].ramp = "temperature"
    /\ config.m["temperature_2m"].conv = "kelvin_to_celsius"

\* The variables of the catalog whose enabled flag is true.
FlagTrue == {v \in CatNames : config.m[v].k = "map" /\ config.m[v].enabled = "true"}

\* C13 (under SpecSelect): get_enabled_variables returns exactly the
\* variables whose enabled flag is true; get_variables_by_priority(level)
\* returns exactly the enabled variables of that priority, all the enabled
\* ones for level None, and always a subset of the enabled variables.
C13_EnabledAndPriority ==
    cpc = "returned" =>
        /\ cop = "get_enabled_variables" => cres = FlagTrue
        /\ cop = "get_variables_by_priority" =>
              /\ cres \subseteq FlagTrue
              /\ carg.priority = 0 => cres = FlagTrue
              /\ carg.priority # 0 =>
                    cres = {v \in FlagTrue : config.m[v].priority = carg.priority}

\* A priority query that kept one enabled variable and left out an enabled
\* variable of another priority.
C13_Witness ==
    /\ cpc = "returned" /\ cop = "get_variables_by_priority"
    /\ carg.priority = 1
    /\ cres = {"wind_u_10m"}
    /\ config.m["temperature_2m"].enabled = "true"
    /\ config.m["temperature_2m"].priority = 2

\* C20 (under SpecSelect): every variable process_grib_file selects for the
\* pipeline is an enabled variable, whichever selection is used.
C20_OnlyEnabledProcessed ==
    (cpc = "returned" /\ cop = "process_grib_file") => cres \subseteq FlagTrue
-----------------------------------------------------------------------------
(* Claims about the Unit Converter, checked under SpecConvert and SpecUnits *)

\* The conversion name resolves to a mapping in the 'conversions' table.
Defined(c, name) ==
    /\ c.conversions.k = "map" /\ name \in c.conversions.names
    /\ c.formulas[name].k \notin {"null"}

\* C14 (under SpecConvert): when the conversion name is not defined, when
\* the conversion has no formula, or when evaluating the formula fails,
\* apply_conversion ends with an error that identifies the conversion and
\* returns no number.
C14_ConversionErrors ==
    LET e == config.formulas[karg.name] IN
    (/\ kpc = "done"
     /\ \/ ~Defined(config, karg.name)
        \/ e.k # "map"
        \/ e.formula \in {"absent", "", "value / 0", "value - offset", "value -"})
    => (cout.k # "value" /\ cout.names = karg.name)

\* C15 (under SpecConvert): the outcome of evaluating a formula is the same
\* whatever the state outside the call was, and the call leaves that state
\* as it found it.
C15_FormulaSandboxed ==
    kpc = "done" =>
        /\ ambient = karg.ambient
        /\ \A a \in Ambients :
              LET o == apply_conversion(config, karg.value, karg.name, a) IN
              o.k = cout.k /\ o.val = cout.val

\* The unit token a conversion converts to.
TargetToken(conversion_name) ==
    IF conversion_name = "kelvin_to_celsius" THEN <<"[", "C", "]">>
    ELSE IF conversion_name = "kelvin_to_fahrenheit" THEN <<"[", "F", "]">>
    ELSE <<"[", "m", "p", "h", "]">>

\* C16 as stated (under SpecUnits): for a grid already tagged with the
\* target units of the conversion, every application returns the values
\* unchanged.
C16_TaggedGridUnchanged ==
    (applied >= 1 /\ karg.name # "" /\ karg.grid.unit = TargetToken(karg.name))
        => (~uraised /\ grid = karg.grid)

\* C16 amended (under SpecUnits): for kelvin_to_celsius on a grid tagged
\* [C], and kelvin_to_fahrenheit on a grid tagged [F], one application and
\* two applications both return the grid unchanged; no other conversion
\* looks at the tag.
C16_KnownTagsUnchanged ==
    (/\ applied >= 1
     /\ karg.name \in {"kelvin_to_celsius", "kelvin_to_fahrenheit"}
     /\ karg.grid.unit = TargetToken(karg.name))
        => (~uraised /\ grid = karg.grid)

\* A grid tagged [F] with a valid sample, after two applications of
\* kelvin_to_fahrenheit.
C16_Witness ==
    /\ applied = 2 /\ karg.name = "kelvin_to_fahrenheit"
    /\ karg.grid.unit = <<"[", "F", "]">>
    /\ Len(grid.values) = 2 /\ grid.values[1] = Num(300)
    /\ grid = karg.grid

\* The grid after one application to the input grid, and whether sample i
\* of a grid is a no-data sample.
Once == apply_unit_conversion(karg.grid, karg.name, config, 0).grid
IsNoData(g, i) == IF g.nodata.set THEN g.values[i] = Num(g.nodata.v) ELSE g.values[i].nan
Converts == karg.name # "" /\ ~AlreadyInTargetUnits(karg.name, karg.grid.unit)

\* C24: a converting application that returns gives a grid of the same
\* shape, spatial reference, unit tag and no-data sentinel; every no-data
\* sample keeps its value and every valid sample is the formula applied to
\* the input sample.
C24_ValuesOnly ==
    (applied = 1 /\ ~uraised /\ Converts) =>
        /\ Len(grid.values) = Len(karg.grid.values)
        /\ grid.crs = karg.grid.crs /\ grid.nodata = karg.grid.nodata
        /\ grid.unit = karg.grid.unit
        /\ \A i \in 1..Len(grid.values) :
              LET x == karg.grid.values[i] IN
              IF IsNoData(karg.grid, i) \/ x.nan THEN grid.values[i] = x
              ELSE grid.values[i] = Num(apply_conversion(config, x.v, karg.name, 0).val)

\* A grid with a sentinel, holding one no-data sample and one valid
\* sample, after kelvin_to_celsius.
C24_Witness ==
    /\ applied = 1 /\ ~uraised /\ karg.name = "kelvin_to_celsius"
    /\ karg.grid.nodata.set /\ karg.grid.values = <<Num(9999), Num(300)>>
    /\ grid.values = <<Num(9999), Num(27)>>

\* C27: a conversion applied to a grid in which every sample is no-data
\* returns the grid unchanged and raises nothing.
C27_AllNoDataUnchanged ==
    (/\ applied >= 1 /\ karg.name # ""
     /\ Len(karg.grid.values) >= 1
     /\ \A i \in 1..Len(karg.grid.values) : IsNoData(karg.grid, i))
        => (~uraised /\ grid = karg.grid)

\* C30 as stated: when the unit tag is not the target-unit tag, the tag is
\* left as it was and two applications give another grid than one.
C30_TwiceDiffersFromOnce ==
    (applied = 2 /\ ~uraised /\ karg.name # ""
        /\ karg.grid.unit # TargetToken(karg.name))
        => (grid.unit = karg.grid.unit /\ grid # Once)

\* C30 amended: when the unit tag is not the target-unit tag, the tag is
\* left as it was and the second application applies the formula again
\* to every sample that is valid in the input and after the first
\* application; two applications give another grid than one exactly when
\* one of these samples is not a fixed point of the formula.
C30_FormulaAppliedTwice ==
    (applied = 2 /\ ~uraised /\ karg.name # ""
        /\ karg.grid.unit # TargetToken(karg.name))
        => LET F(v) == apply_conversion(config, v, karg.name, 0).val
               live == {i \in 1..Len(grid.values) :
                          /\ ~IsNoData(karg.grid, i) /\ ~IsNoData(Once, i)
                          /\ ~karg.grid.values[i].nan}
           IN  /\ grid.unit = karg.grid.unit
               /\ \A i \in live : grid.values[i] = Num(F(F(karg.grid.values[i].v)))
               /\ grid # Once <=> \E i \in live : F(Once.values[i].v) # Once.values[i].v

\* A grid tagged [K] converted twice by kelvin_to_celsius: 300 has become
\* -246, not 27.
C30_Witness ==
    /\ applied = 2 /\ ~uraised /\ karg.name = "kelvin_to_celsius"
    /\ karg.grid.unit = <<"[", "K", "]">>
    /\ karg.grid.values = <<Num(300)>> /\ grid.values = <<Num(0 - 246)>>
    /\ grid.unit = <<"[", "K", "]">>
-----------------------------------------------------------------------------
(* Claims about the Tile Slicer's handling of one file, under SpecFile      *)

\* The spatial reference is missing, carries the unknown / engineering
\* datum marker, or has an authority code other than 3857.
NeedsCorrection == ~srs.ref \/ srs.marker # "" \/ srs.code # "3857"

C18_DigitDirectoryNames ==
    /\ fpc \in {"scan", "done"} =>
          (IsDigit(tree.forecast) /\ \A z \in tree.zooms : IsDigit(z))
    /\ fpc = "done" => <<tree.ts, tree.forecast>> \in runs

-----------------------------------------------------------------------------
(* Claim about organize_tile_structure in one invocation, under SpecSolo   *)

\* C19: after organize_tile_structure returns, every zoom directory that
\* was in the scratch directory is at the path named by the parsed file
\* name, as the top-level directory {z} with nothing else moved into it;
\* the scratch directory is gone; no directory of this invocation is under
\* the path of another file name.  While it runs, each zoom directory is
\* still in the scratch directory or already at its destination.
C19_OrganizePostcondition ==
    \A w \in Workers :
        LET mine(z) == ZDir(w, NoDir) IN
        /\ pc[w] \in {"org", "org_rm", "org_mv"} =>
              \A z \in 1..job[w].hi :
                  z \in tmpdir[w].zs \/ pub[job[w].file][z] = mine(z)
        /\ (pc[w] = "published" /\ job[w].organize) =>
              /\ \A z \in 1..job[w].hi : pub[job[w].file][z] = mine(z)
              /\ ~tmpdir[w].ex
              /\ \A f \in Files \ {job[w].file} : \A z \in Zooms :
                    pub[f][z].top # w /\ pub[f][z].inner # w

\* An organize call returned after replacing the directories an earlier
\* run had published for the same file name.
C19_Witness ==
    /\ pc["w1"] = "published" /\ job["w1"].organize /\ job["w1"].file = "fB"
    /\ job["w1"].hi = MaxZoom
    /\ \A z \in Zooms : pub["fB"][z] = ZDir("w1", NoDir)
    /\ pub["fA"][1].top = Old
    /\ ~tmpdir["w1"].ex
-----------------------------------------------------------------------------
(* Claims about the Color Mapper and the names of rasters, under SpecColor *)

\* The bytes of the hex colors of the model, pair by pair.
Bytes(hex_color) ==
    IF hex_color = Hex.indigo THEN <<26, 0, 102>>
    ELSE IF hex_color = Hex.red THEN <<255, 0, 0>>
    ELSE IF hex_color = Hex.spring THEN <<0, 255, 127>>
    ELSE <<>>

\* C21: for a ramp of N stops with six-digit hex colors, with or without
\* '#', the file holds, once create_color_relief_file is through, N rows
\* (threshold, R, G, B) in the order of the stops, each byte the value of
\* its hex pair, then the row nv 0 0 0 0 as the last row; while it runs
\* the rows written are the rows of the first stops, and it does not raise
\* (a file that failed after its variable was found has all its rows).
C21_ColorReliefRows ==
    (\A i \in 1..Len(ramp) : Bytes(ramp[i].color) # <<>>) =>
        /\ (mpc = "failed" /\ inferred = src.variable) => Len(cfile) = Len(ramp) + 1
        /\ \A i \in 1..Len(cfile) :
              IF i <= Len(ramp)
              THEN LET c == Bytes(ramp[i].color) IN
                   cfile[i] = [nv |-> FALSE, v |-> ramp[i].value,
                               r |-> c[1], g |-> c[2], b |-> c[3], a |-> 0 - 1]
              ELSE cfile[i] = [nv |-> TRUE, v |-> 0, r |-> 0, g |-> 0, b |-> 0, a |-> 0]
        /\ mpc \in {"colored", "parsed"} => Len(cfile) = Len(ramp) + 1

\* A ramp of two stops, the first with '#' and the second without, in
\* decreasing order of threshold, written out.
C21_Witness ==
    /\ mpc = "colored"
    /\ Len(ramp) = 2 /\ ramp[1].color = Hex.indigo /\ ramp[2].color = Hex.red
    /\ ramp[1].value = 50 /\ ramp[2].value = 0 - 40
    /\ Len(cfile) = 3 /\ cfile[1].r = 26 /\ cfile[2].r = 255 /\ cfile[3].nv

\* C29: for a variable none of whose parts starts with a model prefix and
\* a source file {model}.{YYYYMMDD}.t{HH}z.f{hh}, infer_variable_name gives
\* the variable back from the raster's name, and parse_cog_filename gives
\* the variable, date, cycle and forecast hour back from the colored
\* raster's name.
C29_NamesRoundTrip ==
    /\ mpc \notin {"raster", "infer"} => inferred = src.variable
    /\ mpc = "parsed" =>
          /\ parsed.ok /\ parsed.variable = src.variable
          /\ parsed.date = Str.d8 /\ parsed.cycle = Str.c19z
          /\ parsed.forecast = src.fxx
====
